---- MODULE Spec2Model ----
(***************************************************************************)
(* A model of the two programs of the repository:                          *)
(*   src/app.py             the Daily Finance Challenge quiz               *)
(*   src/MoneyQuest/app.py  the MoneyQuest month-cycle finance simulator   *)
(*                                                                         *)
(* Both are Streamlit scripts: every user action (a button press) runs the *)
(* script once from top to bottom, and st.rerun() restarts it at once.  An *)
(* action of the model is one user action together with every script run  *)
(* it causes.                                                              *)
(*                                                                         *)
(* Specifications:                                                         *)
(*   Spec        the quiz session (submit / hint / next / replay)          *)
(*   SpecStreak  update_streak_with_freeze on arbitrary saves and dates    *)
(*   SpecMonth   the finance simulator (settings, choices, close_month)    *)
(*   SpecBudget  apply_budget on arbitrary inputs                          *)
(*   SpecSession one quiz session on up to SessionQ questions, no replay   *)
(*   SpecPay     compute_net_pay on arbitrary inputs                       *)
(*   SpecClean   clean_text on every short text                            *)
(*   SpecSave    save files of both programs written and loaded again      *)
(*   SpecLoad    arbitrary documents uploaded as save files                *)
(*   SpecRestore the quiz with save files uploaded and removed again       *)
(*   SpecScore   update_credit_score and close_month on arbitrary debts    *)
(*   SpecCredit  the simulator after a save file that sets the debt        *)
(*   SpecGame    one game from its start, no save file loaded              *)
(*   SpecGameFair  SpecGame with months closed again and again             *)
(***************************************************************************)
EXTENDS Integers, Sequences, FiniteSets, TLC

VARIABLES
    bank,            \* src/app.py: the question list of DEMO_DATE in MONTH_BANK
    play,            \* src/app.py: st.session_state.play  (PlaySession)
    save,            \* src/app.py: st.session_state.save  (SaveState)
    recorded_today,  \* src/app.py: st.session_state["recorded_today"]
    up,              \* src/app.py: the file held by the Load Save uploader
    state,           \* src/MoneyQuest/app.py: st.session_state.state (PlayerState)
    call             \* the operation that ran last, with its inputs and results

vars == <<bank, play, save, recorded_today, up, state, call>>

(***************************************************************************)
(* Bounds of the model.                                                    *)
(***************************************************************************)
\* Largest number of questions in the day's set.  Progress is kept exactly,
\* in units of 1/(10*N); for every N up to MaxQ + 1 the IEEE double
\* computation of the source agrees with the exact one on every test
\* progress_visual >= 1.0 (it first differs at N = 6).
MaxQ == 4
\* Dates range over DEMO_DATE - DateWindow .. DEMO_DATE + DateWindow.
DateWindow == 5
\* update_streak_with_freeze is applied while streak is below this cap.
MaxStreak == 6
\* close_month is applied while the history holds fewer snapshots than this.
MaxMonths == 2
\* the longest text given to clean_text
MaxText == 3
\* the most questions of the day played in a single session (SpecSession)
SessionQ == 7

(***************************************************************************)
(* src/app.py: scoring knobs.                                              *)
(***************************************************************************)
POINTS_CORRECT == 10
POINTS_CORRECT_HINT == 5
POINTS_PERFECT_BONUS == 20
PROGRESS_FINISH_PER_Q == 6

\* Python's None (and the empty string: both are falsy where the code tests).
None == <<>>

Max(a, b) == IF a >= b THEN a ELSE b
Min(a, b) == IF a <= b THEN a ELSE b

(***************************************************************************)
(* Dates.  A datetime.date is a record [y, m, d]; its ISO text             *)
(* "YYYY-MM-DD" is the tuple <<y, m, d>> of its three fields.              *)
(***************************************************************************)
DEMO_DATE == [y |-> 2025, m |-> 10, d |-> 5]

\* Days of the months of a non-leap year (2025).
DaysInMonth == <<31, 28, 31, 30, 31, 30, 31, 31, 30, 31, 30, 31>>

RECURSIVE DaysBeforeMonth(_)
DaysBeforeMonth(m) == IF m = 1 THEN 0 ELSE DaysInMonth[m - 1] + DaysBeforeMonth(m - 1)

\* date.toordinal(), counted from the first day of the year.
toordinal(d) == DaysBeforeMonth(d.m) + d.d

isoformat(d) == <<d.y, d.m, d.d>>
fromisoformat(s) == [y |-> s[1], m |-> s[2], d |-> s[3]]

\* (a - b).days
DaysBetween(a, b) == toordinal(a) - toordinal(b)

Dates ==
    {dt \in [y : {DEMO_DATE.y}, m : 1..12, d : 1..31] :
        /\ dt.d <= DaysInMonth[dt.m]
        /\ DaysBetween(dt, DEMO_DATE) \in (0 - DateWindow)..DateWindow}

(***************************************************************************)
(* Text.  A str is a sequence of one-character strings.                    *)
(***************************************************************************)
Digits == {"0", "1", "2", "3", "4", "5", "6", "7", "8", "9"}

DigitValue(c) ==
    CASE c = "0" -> 0 [] c = "1" -> 1 [] c = "2" -> 2 [] c = "3" -> 3 [] c = "4" -> 4
      [] c = "5" -> 5 [] c = "6" -> 6 [] c = "7" -> 7 [] c = "8" -> 8 [] c = "9" -> 9

IsSpace(c) == c = " "

RECURSIVE lstrip(_)
lstrip(s) == IF s # <<>> /\ IsSpace(Head(s)) THEN lstrip(Tail(s)) ELSE s

RECURSIVE rstrip(_)
rstrip(s) ==
    IF s # <<>> /\ IsSpace(s[Len(s)]) THEN rstrip(SubSeq(s, 1, Len(s) - 1)) ELSE s

\* str.strip()
strip(s) == rstrip(lstrip(s))

\* str.lower(), on the letters the model uses
LowerChar(c) == CASE c = "A" -> "a" [] c = "B" -> "b" [] OTHER -> c
lower(s) == [i \in 1..Len(s) |-> LowerChar(s[i])]

\* str.replace(",", "")
RemoveCommas(s) == SelectSeq(s, LAMBDA c : c # ",")

\* float(s) for the texts of the model: a non-empty run of decimal digits
\* parses to its value, any other text raises ValueError.
FloatParses(s) == s # <<>> /\ \A i \in 1..Len(s) : s[i] \in Digits

RECURSIVE FloatValue(_)
FloatValue(s) ==
    IF s = <<>> THEN 0
    ELSE 10 * FloatValue(SubSeq(s, 1, Len(s) - 1)) + DigitValue(s[Len(s)])

Abs(x) == IF x < 0 THEN 0 - x ELSE x

(***************************************************************************)
(* src/app.py: clean_text.  The characters of the model: the letter "a",   *)
(* the space, the comma, the period, "tab" (a control character), "nbsp"   *)
(* (U+00A0, which NFKC turns into a space), "zw" (U+200B, zero width),     *)
(* "acute" (U+0301, the combining acute accent) and "a_acute" (U+00E1, the *)
(* letter NFKC composes from "a" followed by "acute").                     *)
(***************************************************************************)
TextChars == {"a", " ", ",", ".", "tab", "nbsp", "zw", "acute", "a_acute"}

\* unicodedata.normalize("NFKC", s)
RECURSIVE normalize_unicode(_)
normalize_unicode(s) ==
    IF s = <<>> THEN <<>>
    ELSE IF Len(s) >= 2 /\ s[1] = "a" /\ s[2] = "acute"
         THEN <<"a_acute">> \o normalize_unicode(SubSeq(s, 3, Len(s)))
    ELSE IF s[1] = "nbsp" THEN <<" ">> \o normalize_unicode(Tail(s))
    ELSE <<s[1]>> \o normalize_unicode(Tail(s))

\* re.sub(_ZW_CHARS, "", s)
RemoveZeroWidth(s) == SelectSeq(s, LAMBDA c : c # "zw")

\* re.sub(_CTRL_CHARS, " ", s)
ControlToSpace(s) == [i \in 1..Len(s) |-> IF s[i] = "tab" THEN " " ELSE s[i]]

\* \s of the regular expressions, after the steps above
IsWhite(c) == c \in {" ", "tab", "nbsp"}

\* The index of the first character at or after i that is not white
RECURSIVE SkipWhite(_, _)
SkipWhite(s, i) == IF i <= Len(s) /\ IsWhite(s[i]) THEN SkipWhite(s, i + 1) ELSE i

\* re.sub(r"\s+", " ", s), from index i
RECURSIVE CollapseWhite(_, _)
CollapseWhite(s, i) ==
    IF i > Len(s) THEN <<>>
    ELSE IF IsWhite(s[i]) THEN <<" ">> \o CollapseWhite(s, SkipWhite(s, i))
    ELSE <<s[i]>> \o CollapseWhite(s, i + 1)

\* re.sub(r"\s*,\s*", ", ", s), from index i
RECURSIVE SpaceCommas(_, _)
SpaceCommas(s, i) ==
    IF i > Len(s) THEN <<>>
    ELSE LET j == SkipWhite(s, i)
         IN  IF j <= Len(s) /\ s[j] = ","
             THEN <<",", " ">> \o SpaceCommas(s, SkipWhite(s, j + 1))
             ELSE <<s[i]>> \o SpaceCommas(s, i + 1)

\* re.sub(r"\s+\.", ".", s), from index i
RECURSIVE TightenPeriods(_, _)
TightenPeriods(s, i) ==
    IF i > Len(s) THEN <<>>
    ELSE LET j == SkipWhite(s, i)
         IN  IF j > i /\ j <= Len(s) /\ s[j] = "."
             THEN <<".">> \o TightenPeriods(s, j + 1)
             ELSE <<s[i]>> \o TightenPeriods(s, i + 1)

\* s.replace(" ,", ","), from index i
RECURSIVE ReplaceSpaceComma(_, _)
ReplaceSpaceComma(s, i) ==
    IF i > Len(s) THEN <<>>
    ELSE IF i < Len(s) /\ s[i] = " " /\ s[i + 1] = ","
         THEN <<",">> \o ReplaceSpaceComma(s, i + 2)
    ELSE <<s[i]>> \o ReplaceSpaceComma(s, i + 1)

\* s.strip() on the characters of clean_text
RECURSIVE StripWhite(_)
StripWhite(s) ==
    IF s # <<>> /\ IsWhite(s[1]) THEN StripWhite(Tail(s))
    ELSE IF s # <<>> /\ IsWhite(s[Len(s)]) THEN StripWhite(SubSeq(s, 1, Len(s) - 1))
    ELSE s

clean_text(s) ==
    LET s1 == normalize_unicode(s)
        s2 == RemoveZeroWidth(s1)
        s3 == ControlToSpace(s2)
        s4 == CollapseWhite(s3, 1)
        s5 == SpaceCommas(s4, 1)
        s6 == TightenPeriods(s5, 1)
        s7 == ReplaceSpaceComma(s6, 1)
    IN  StripWhite(s7)

(***************************************************************************)
(* src/app.py: answer checks.                                              *)
(***************************************************************************)
norm(s) == lower(strip(s))

check_numeric_text(u_text, a, t) ==
    IF u_text = None THEN FALSE
    ELSE LET u == strip(u_text)
             digits == RemoveCommas(u)
         IN  IF u = <<>> THEN FALSE
             ELSE IF ~FloatParses(digits) THEN FALSE
             ELSE Abs(FloatValue(digits) - a) <= t

\* (u or "") == a
check_mc(u, a) == (IF u = None THEN <<>> ELSE u) = a
check_tf(u, a) == (IF u = None THEN <<>> ELSE u) = a
check_fib(u, a) == norm(u) = norm(a)

(***************************************************************************)
(* The question bank of DEMO_DATE (question_bank.json is data, not code):  *)
(* n questions whose types and categories rotate.                          *)
(***************************************************************************)
QuestionTypes == <<"numeric", "fib", "mc", "truefalse">>
Categories == <<"budget", "credit", "saving">>

Question(i) ==
    LET ty == QuestionTypes[((i - 1) % Len(QuestionTypes)) + 1]
        cat == Categories[((i - 1) % Len(Categories)) + 1]
    IN  [id |-> i, category |-> cat, type |-> ty,
         choices |-> IF ty = "mc" THEN {<<"A">>, <<"B">>} ELSE {},
         answer |-> IF ty = "mc" THEN <<"A">>
                    ELSE IF ty = "truefalse" THEN <<"T">> ELSE None,
         answer_num |-> 12, tolerance |-> 1,
         answer_text |-> <<"A", "b">>]

get_day_questions(n) == [i \in 1..n |-> Question(i)]

\* What the user can have in the answer widget when pressing Submit.
UserInputs(q) ==
    CASE q.type = "mc" -> {None} \cup q.choices
      [] q.type = "truefalse" -> {None, <<"T">>, <<"F">>}
      [] q.type = "numeric" ->
            {<<>>, <<" ">>, <<"x">>, <<"1", "2">>, <<" ", "1", "3", " ">>,
             <<"1", ",", "1">>, <<"1", "4">>, <<"1", " ", "2">>}
      [] q.type = "fib" ->
            {<<>>, <<" ", " ">>, <<"a", "b">>, <<" ", "A", "B", " ">>, <<"a">>}

(***************************************************************************)
(* src/app.py: SaveState and PlaySession.  The timestamps of PlaySession   *)
(* and the time of a day-summary only feed the display and are left out;   *)
(* a QAResult keeps qid, category, correct and used_hint.                  *)
(* badges is the set of the keys of the dict (every value stored is True). *)
(* progress_visual is kept in units of 1/(10 * len(questions)), so the     *)
(* value 1.0 of the source is ProgressFull(p).  The sums are exact here;   *)
(* the source adds floats, whose rounding error is far below one unit and  *)
(* shows only where the exact sum is 1: on days of up to 5 questions the   *)
(* float sum is then 1.0 as well, on days of 6 or more questions it can be *)
(* 0.9999999999999999 (e.g. 5 of 6 questions answered right, right, wrong, *)
(* right, right), and the progress finish then waits for the next answer.  *)
(***************************************************************************)
NewSaveState ==
    [display_name |-> "You", total_points |-> 0, streak |-> 0, last_played |-> None,
     streak_freezes |-> 3, history |-> <<>>, category_stats |-> <<>>, badges |-> {},
     room_code |-> None]

\* PlaySession whose progress_visual does not start at 0.0
NewPlaySession_progress_kept(date, questions) ==
    [date |-> date, questions |-> questions, idx |-> 0, score_today |-> 0,
     results |-> <<>>, answered |-> FALSE, used_hint |-> FALSE, completed |-> FALSE,
     correct_streak |-> 0, answered_count |-> 0, progress_visual |-> 10,
     finished_by_progress |-> FALSE]

NewPlaySession(date, questions) ==
    [date |-> date, questions |-> questions, idx |-> 0, score_today |-> 0,
     results |-> <<>>, answered |-> FALSE, used_hint |-> FALSE, completed |-> FALSE,
     correct_streak |-> 0, answered_count |-> 0, progress_visual |-> 0,
     finished_by_progress |-> FALSE]

ProgressFull(p) == 10 * Len(p.questions)

\* Boost without its last step: 1.8 for every streak of 3 or more
Boost_flat_after_three(correct_streak) ==
    IF correct_streak = 1 THEN 10
    ELSE IF correct_streak = 2 THEN 15 ELSE 18

\* boost, in tenths: 1.0, 1.5, 1.8, 2.0
Boost(correct_streak) ==
    IF correct_streak = 1 THEN 10
    ELSE IF correct_streak = 2 THEN 15
    ELSE IF correct_streak = 3 THEN 18 ELSE 20

\* sum(1 for r in play.results if r.correct)
CorrectCount(results) == Cardinality({i \in 1..Len(results) : results[i].correct})

(***************************************************************************)
(* src/app.py: update_streak_with_freeze(save, playing_date)               *)
(***************************************************************************)
\* A mutant of update_streak_with_freeze: a same-day call counts as the
\* next day (delta <= 1 where the code has delta == 1, no early return).
update_streak_same_day_counts(s, playing_date) ==
    IF s.last_played = None
    THEN [s EXCEPT !.streak = 1, !.last_played = isoformat(playing_date)]
    ELSE LET last == fromisoformat(s.last_played)
             delta == DaysBetween(playing_date, last)
             s1 == IF delta \in {0, 1} THEN [s EXCEPT !.streak = @ + 1]
                   ELSE IF delta > 1
                   THEN IF s.streak_freezes > 0
                        THEN [s EXCEPT !.streak_freezes = @ - 1, !.streak = @ + 1]
                        ELSE [s EXCEPT !.streak = 1]
                   ELSE s
         IN  [s1 EXCEPT !.last_played = isoformat(playing_date)]

\* A mutant of update_streak_with_freeze: a gap uses a freeze without
\* taking it from streak_freezes.
update_streak_freeze_not_consumed(s, playing_date) ==
    IF s.last_played = None
    THEN [s EXCEPT !.streak = 1, !.last_played = isoformat(playing_date)]
    ELSE LET last == fromisoformat(s.last_played)
             delta == DaysBetween(playing_date, last)
             s1 == IF delta = 1 THEN [s EXCEPT !.streak = @ + 1]
                   ELSE IF delta > 1
                   THEN IF s.streak_freezes > 0
                        THEN [s EXCEPT !.streak = @ + 1]
                        ELSE [s EXCEPT !.streak = 1]
                   ELSE s
         IN  IF delta = 0 THEN s
             ELSE [s1 EXCEPT !.last_played = isoformat(playing_date)]

update_streak_with_freeze(s, playing_date) ==
    IF s.last_played = None
    THEN [s EXCEPT !.streak = 1, !.last_played = isoformat(playing_date)]
    ELSE LET last == fromisoformat(s.last_played)
             delta == DaysBetween(playing_date, last)
             s1 == IF delta = 1 THEN [s EXCEPT !.streak = @ + 1]
                   ELSE IF delta > 1
                   THEN IF s.streak_freezes > 0
                        THEN [s EXCEPT !.streak_freezes = @ - 1, !.streak = @ + 1]
                        ELSE [s EXCEPT !.streak = 1]
                   ELSE s
         IN  IF delta = 0 THEN s
             ELSE [s1 EXCEPT !.last_played = isoformat(playing_date)]

(***************************************************************************)
(* src/app.py: the Daily Questions tab.                                    *)
(***************************************************************************)
\* add_cat_stat(cat, correct) on save.category_stats
add_cat_stat(stats, cat, correct) ==
    LET d == IF cat \in DOMAIN stats THEN stats[cat] ELSE [correct |-> 0, attempted |-> 0]
        d1 == [correct |-> d.correct + (IF correct THEN 1 ELSE 0),
               attempted |-> d.attempted + 1]
    IN  [c \in (DOMAIN stats) \cup {cat} |-> IF c = cat THEN d1 ELSE stats[c]]

\* for r in play.results: add_cat_stat(r.category, r.correct)
RECURSIVE AddCatStats(_, _)
AddCatStats(stats, results) ==
    IF results = <<>> THEN stats
    ELSE AddCatStats(add_cat_stat(stats, Head(results).category, Head(results).correct),
                     Tail(results))

\* A mutant of finish_day_by_progress_if_needed: the session ends when the
\* progress is above 1.0 (> where the code has >=).
finish_day_by_progress_strict(p) ==
    IF ~p.completed /\ p.progress_visual > ProgressFull(p)
    THEN LET remaining == Max(0, Len(p.questions) - p.answered_count)
             bonus == remaining * PROGRESS_FINISH_PER_Q
         IN  [p EXCEPT !.score_today = IF bonus > 0 THEN @ + bonus ELSE @,
                       !.finished_by_progress = TRUE,
                       !.completed = TRUE]
    ELSE p

\* A mutant of finish_day_by_progress_if_needed: the questions left are
\* counted from idx, not from answered_count.
finish_day_by_progress_miscounted(p) ==
    IF ~p.completed /\ p.progress_visual >= ProgressFull(p)
    THEN LET remaining == Max(0, Len(p.questions) - p.idx)
             bonus == remaining * PROGRESS_FINISH_PER_Q
         IN  [p EXCEPT !.score_today = IF bonus > 0 THEN @ + bonus ELSE @,
                       !.finished_by_progress = TRUE,
                       !.completed = TRUE]
    ELSE p

\* finish_day_by_progress_if_needed(), up to its st.rerun()
finish_day_by_progress_if_needed(p) ==
    IF ~p.completed /\ p.progress_visual >= ProgressFull(p)
    THEN LET remaining == Max(0, Len(p.questions) - p.answered_count)
             bonus == remaining * PROGRESS_FINISH_PER_Q
         IN  [p EXCEPT !.score_today = IF bonus > 0 THEN @ + bonus ELSE @,
                       !.finished_by_progress = TRUE,
                       !.completed = TRUE]
    ELSE p

\* A mutant of NotRecordedYet: the guard is gone, every run of the
\* completed branch records.
NotRecordedYet_unguarded(p, rec) == TRUE

\* st.session_state.get("recorded_today") != play.date.isoformat()
NotRecordedYet(p, rec) == rec # isoformat(p.date)

\* The day-completion recording of the completed branch (guarded by
\* recorded_today).  Gives the play, save and recorded_today after it.
RecordDay(p, s, rec) ==
    IF NotRecordedYet(p, rec)
    THEN LET correct_count == CorrectCount(p.results)
             s1 == update_streak_with_freeze(s, p.date)
             s2 == [s1 EXCEPT !.category_stats = AddCatStats(@, p.results)]
             perfect == (~p.finished_by_progress) /\ correct_count = Len(p.questions)
             p1 == [p EXCEPT !.score_today =
                        IF perfect THEN @ + POINTS_PERFECT_BONUS ELSE @]
             b == s2.badges
                  \cup (IF perfect THEN {"perfect_day"} ELSE {})
                  \cup (IF s2.streak >= 5 THEN {"streak_5"} ELSE {})
                  \cup (IF s2.streak >= 10 THEN {"streak_10"} ELSE {})
                  \cup (IF p1.score_today >= 100 THEN {"centurion"} ELSE {})
             s3 == [s2 EXCEPT
                      !.badges = b,
                      !.total_points = @ + p1.score_today,
                      !.history = Append(@,
                          [date |-> isoformat(p1.date), score |-> p1.score_today,
                           correct |-> correct_count, total |-> Len(p1.questions),
                           finished_by_progress |-> p1.finished_by_progress,
                           categories |-> [i \in 1..Len(p1.results) |->
                                              p1.results[i].category]])]
         IN  [play |-> p1, save |-> s3, recorded_today |-> isoformat(p1.date)]
    ELSE [play |-> p, save |-> s, recorded_today |-> rec]

\* A mutant of ScriptRun: the day is recorded by every run, completed
\* session or not.
ScriptRun_records_unfinished(p, s, rec) == RecordDay(p, s, rec)

\* One run of the script's Daily Questions tab with no button pressed: the
\* completed branch records the day, the other branch shows the question.
ScriptRun(p, s, rec) ==
    IF p.completed THEN RecordDay(p, s, rec)
    ELSE [play |-> p, save |-> s, recorded_today |-> rec]

\* The Submit button of the question's type: whether the press counts as a
\* submission, and whether the answer is right.
SubmitButton(p, q, raw) ==
    CASE q.type = "mc" ->
            IF ~p.answered /\ raw # None
            THEN [submitted |-> TRUE, got_right |-> check_mc(raw, q.answer)]
            ELSE [submitted |-> FALSE, got_right |-> FALSE]
      [] q.type = "numeric" ->
            IF ~p.answered
            THEN [submitted |-> strip(raw) # <<>>,
                  got_right |-> check_numeric_text(raw, q.answer_num, q.tolerance)]
            ELSE [submitted |-> FALSE, got_right |-> FALSE]
      [] q.type = "truefalse" ->
            IF ~p.answered /\ raw # None
            THEN [submitted |-> TRUE, got_right |-> check_tf(raw, q.answer)]
            ELSE [submitted |-> FALSE, got_right |-> FALSE]
      [] q.type = "fib" ->
            IF ~p.answered /\ strip(raw) # <<>>
            THEN [submitted |-> TRUE, got_right |-> check_fib(raw, q.answer_text)]
            ELSE [submitted |-> FALSE, got_right |-> FALSE]

\* AfterSubmit without the min(1.0, ...) of the progress bar
AfterSubmit_uncapped(p, q, got_right) ==
    LET reward == IF got_right /\ ~p.used_hint THEN POINTS_CORRECT
                  ELSE IF got_right /\ p.used_hint THEN POINTS_CORRECT_HINT
                  ELSE 0
        streak == IF got_right THEN p.correct_streak + 1 ELSE 0
        step == IF got_right THEN Boost(streak) ELSE 10
    IN  [p EXCEPT
           !.score_today = @ + reward,
           !.results = Append(@, [qid |-> q.id, category |-> q.category,
                                  correct |-> got_right,
                                  used_hint |-> (got_right /\ p.used_hint)]),
           !.answered = TRUE,
           !.answered_count = @ + 1,
           !.correct_streak = streak,
           !.progress_visual = @ + step]

\* "After submit": scoring, the result entry, the combo progress bar.
AfterSubmit(p, q, got_right) ==
    LET reward == IF got_right /\ ~p.used_hint THEN POINTS_CORRECT
                  ELSE IF got_right /\ p.used_hint THEN POINTS_CORRECT_HINT
                  ELSE 0
        streak == IF got_right THEN p.correct_streak + 1 ELSE 0
        step == IF got_right THEN Boost(streak) ELSE 10
    IN  [p EXCEPT
           !.score_today = @ + reward,
           !.results = Append(@, [qid |-> q.id, category |-> q.category,
                                  correct |-> got_right,
                                  used_hint |-> (got_right /\ p.used_hint)]),
           !.answered = TRUE,
           !.answered_count = @ + 1,
           !.correct_streak = streak,
           !.progress_visual = Min(ProgressFull(p), @ + step)]

\* NextButton without the reset of answered
NextButton_answered_kept(p) ==
    LET p1 == [p EXCEPT !.idx = @ + 1, !.used_hint = FALSE]
    IN  IF p1.idx >= Len(p1.questions)
        THEN [p1 EXCEPT
                !.score_today =
                    IF CorrectCount(p1.results) = Len(p1.questions)
                    THEN @ + POINTS_PERFECT_BONUS ELSE @,
                !.completed = TRUE]
        ELSE p1

\* NextButton without the reset of used_hint
NextButton_hint_kept(p) ==
    LET p1 == [p EXCEPT !.idx = @ + 1, !.answered = FALSE]
    IN  IF p1.idx >= Len(p1.questions)
        THEN [p1 EXCEPT
                !.score_today =
                    IF CorrectCount(p1.results) = Len(p1.questions)
                    THEN @ + POINTS_PERFECT_BONUS ELSE @,
                !.completed = TRUE]
        ELSE p1

\* The Next button, up to its st.rerun()
NextButton(p) ==
    LET p1 == [p EXCEPT !.idx = @ + 1, !.answered = FALSE, !.used_hint = FALSE]
    IN  IF p1.idx >= Len(p1.questions)
        THEN [p1 EXCEPT
                !.score_today =
                    IF CorrectCount(p1.results) = Len(p1.questions)
                    THEN @ + POINTS_PERFECT_BONUS ELSE @,
                !.completed = TRUE]
        ELSE p1

(***************************************************************************)
(* src/MoneyQuest/app.py.  Money that the source keeps as a float rounded  *)
(* to 2 decimals is an integer number of cents; intermediate products of a *)
(* cent amount and a whole percentage are integers in 1/100 cent.  The int *)
(* fields of PlayerState (cash, savings, debt) are whole dollars.  A rate   *)
(* or budget fraction is its whole percentage (0.12 is 12).  Hours per     *)
(* week are counted in quarter hours (20.0 is 80).                         *)
(***************************************************************************)
\* Python's round(): to the nearest multiple of unit, ties to the even one.
RoundHalfEven(x, unit) ==
    LET q == x \div unit
        r == x % unit
    IN  IF 2 * r < unit THEN q
        ELSE IF 2 * r > unit THEN q + 1
        ELSE IF q % 2 = 0 THEN q ELSE q + 1

\* math.ceil(n / d) for d > 0
CeilDiv(n, d) == 0 - ((0 - n) \div d)

\* CHOICES: id -> option -> fixed cost in dollars, options in catalog order
CHOICES ==
    <<[id |-> "phone_plan", order |-> <<"basic", "standard", "premium">>,
       cost |-> [basic |-> 30, standard |-> 55, premium |-> 80]],
      [id |-> "transit", order |-> <<"bus", "rideshare", "bike">>,
       cost |-> [bus |-> 50, rideshare |-> 120, bike |-> 10]],
      [id |-> "credit_card", order |-> <<"pay_full", "min_pay">>,
       cost |-> [pay_full |-> 0, min_pay |-> 0]]>>

ChoiceIds == {CHOICES[i].id : i \in 1..Len(CHOICES)}

\* choices.get(cid) when the key is absent (None, falsy like the empty text)
NoChoice == ""

\* dict.get(key, default)
Get(d, key, default) == IF key \in DOMAIN d THEN d[key] ELSE default

\* Income() and PlayerState(choices={}, history=[])
NewIncome == [hoursPerWeek |-> 80, wagePerHour |-> 1500, withholdingRate |-> 12]

NewPlayerState ==
    [month |-> 1, cash |-> 200, savings |-> 100, debt |-> 0, creditScore |-> 680,
     income |-> NewIncome,
     budget_needs |-> 50, budget_wants |-> 30, budget_savings |-> 20,
     choices |-> <<>>, history |-> <<>>]

\* compute_net_pay(hours_per_week, wage, withholding_rate): cents.  With
\* quarter hours and cents, hours_per_week * wage * 4 is a whole number of
\* quarter cents divisible by 4.
compute_net_pay(hours_per_week, wage, withholding_rate) ==
    LET gross == (hours_per_week * wage * 4 * 100) \div 4
        withheld == (hours_per_week * wage * 4 * withholding_rate) \div 4
        net == gross - withheld
    IN  [gross |-> RoundHalfEven(gross, 100),
         withheld |-> RoundHalfEven(withheld, 100),
         net |-> RoundHalfEven(net, 100)]

\* A mutant of apply_budget: the pool left after the fixed needs and the
\* savings added are not cut at 0, so needs above the income are taken
\* from the savings.
apply_budget_unclamped(net_income, needs_p, wants_p, savings_p, fixed_needs_costs) ==
    LET planned_needs == net_income * needs_p
        planned_wants == net_income * wants_p
        planned_savings == net_income * savings_p
        fixed == fixed_needs_costs * 100
        remaining == net_income * 100 - fixed
        wants_spend == Max(0, Min(planned_wants, remaining - planned_savings))
        savings_add == Min(planned_savings, remaining - wants_spend)
        needs_spend == fixed + Max(0, planned_needs - fixed)
        leftover == Max(0, remaining - wants_spend - savings_add)
    IN  [needs_spend |-> RoundHalfEven(needs_spend, 100),
         wants_spend |-> RoundHalfEven(wants_spend, 100),
         savings_add |-> RoundHalfEven(savings_add, 100),
         leftover |-> RoundHalfEven(leftover, 100)]

\* A mutant of apply_budget: wants are capped at the remaining pool alone,
\* so wants are funded before savings.
apply_budget_wants_first(net_income, needs_p, wants_p, savings_p, fixed_needs_costs) ==
    LET planned_needs == net_income * needs_p
        planned_wants == net_income * wants_p
        planned_savings == net_income * savings_p
        fixed == fixed_needs_costs * 100
        remaining == Max(0, net_income * 100 - fixed)
        wants_spend == Max(0, Min(planned_wants, remaining))
        savings_add == Max(0, Min(planned_savings, remaining - wants_spend))
        needs_spend == fixed + Max(0, planned_needs - fixed)
        leftover == Max(0, remaining - wants_spend - savings_add)
    IN  [needs_spend |-> RoundHalfEven(needs_spend, 100),
         wants_spend |-> RoundHalfEven(wants_spend, 100),
         savings_add |-> RoundHalfEven(savings_add, 100),
         leftover |-> RoundHalfEven(leftover, 100)]

\* apply_budget(net_income, needs_p, wants_p, savings_p, fixed_needs_costs):
\* net_income and fixed_needs_costs in cents, the results in cents
apply_budget(net_income, needs_p, wants_p, savings_p, fixed_needs_costs) ==
    LET planned_needs == net_income * needs_p
        planned_wants == net_income * wants_p
        planned_savings == net_income * savings_p
        fixed == fixed_needs_costs * 100
        remaining == Max(0, net_income * 100 - fixed)
        wants_spend == Max(0, Min(planned_wants, remaining - planned_savings))
        savings_add == Max(0, Min(planned_savings, remaining - wants_spend))
        needs_spend == fixed + Max(0, planned_needs - fixed)
        leftover == Max(0, remaining - wants_spend - savings_add)
    IN  [needs_spend |-> RoundHalfEven(needs_spend, 100),
         wants_spend |-> RoundHalfEven(wants_spend, 100),
         savings_add |-> RoundHalfEven(savings_add, 100),
         leftover |-> RoundHalfEven(leftover, 100)]

\* A mutant of update_credit_score: the utilization tiers include their
\* upper ends (<= where the code has <).
update_credit_score_tiers_inclusive(current, util_num, util_den, on_time_payment) ==
    LET n1 == current + (IF on_time_payment THEN 8 ELSE 0 - 25)
        n2 == IF 10 * util_num <= util_den THEN n1 + 6
              ELSE IF 100 * util_num <= 30 * util_den THEN n1 + 2
              ELSE IF 100 * util_num <= 50 * util_den THEN n1 - 6
              ELSE n1 - 12
    IN  Max(300, Min(850, n2))

\* A mutant of update_credit_score: the result is clamped from below only.
update_credit_score_no_ceiling(current, util_num, util_den, on_time_payment) ==
    LET n1 == current + (IF on_time_payment THEN 8 ELSE 0 - 25)
        n2 == IF 10 * util_num < util_den THEN n1 + 6
              ELSE IF 100 * util_num < 30 * util_den THEN n1 + 2
              ELSE IF 100 * util_num < 50 * util_den THEN n1 - 6
              ELSE n1 - 12
    IN  Max(300, n2)

\* update_credit_score(current, utilization, on_time_payment); the
\* utilization is the fraction util_num / util_den (util_den > 0)
update_credit_score(current, util_num, util_den, on_time_payment) ==
    LET n1 == current + (IF on_time_payment THEN 8 ELSE 0 - 25)
        n2 == IF 10 * util_num < util_den THEN n1 + 6
              ELSE IF 100 * util_num < 30 * util_den THEN n1 + 2
              ELSE IF 100 * util_num < 50 * util_den THEN n1 - 6
              ELSE n1 - 12
    IN  Max(300, Min(850, n2))

\* A mutant of CreditCardStep: no interest is added to the debt.
CreditCardStep_no_interest(debt, choices) ==
    LET min_payment == Min(25, debt)
        debt_after_interest == debt
        pay_full_choice == Get(choices, "credit_card", NoChoice) = "pay_full"
        payment == IF pay_full_choice THEN debt_after_interest ELSE min_payment
    IN  [min_payment |-> min_payment, debt_after_interest |-> debt_after_interest,
         payment |-> payment, new_debt |-> Max(0, debt_after_interest - payment)]

\* A mutant of CreditCardStep: a fee of 5 dollars is added to the balance
\* every month, with the interest.
CreditCardStep_monthly_fee(debt, choices) ==
    LET min_payment == Min(25, debt)
        debt_after_interest == CeilDiv(debt * 102, 100) + 5
        pay_full_choice == Get(choices, "credit_card", NoChoice) = "pay_full"
        payment == IF pay_full_choice THEN debt_after_interest ELSE min_payment
    IN  [min_payment |-> min_payment, debt_after_interest |-> debt_after_interest,
         payment |-> payment, new_debt |-> Max(0, debt_after_interest - payment)]

\* The credit-card step of close_month: minimum payment, interest, payment
CreditCardStep(debt, choices) ==
    LET min_payment == Min(25, debt)
        debt_after_interest == CeilDiv(debt * 102, 100)
        pay_full_choice == Get(choices, "credit_card", NoChoice) = "pay_full"
        payment == IF pay_full_choice THEN debt_after_interest ELSE min_payment
    IN  [min_payment |-> min_payment, debt_after_interest |-> debt_after_interest,
         payment |-> payment, new_debt |-> Max(0, debt_after_interest - payment)]

\* A mutant of Advance: the snapshot stored holds the cash of before the
\* month.
Advance_stale_snapshot(st, new_cash, new_savings, new_debt, new_score, snapshot) ==
    [st EXCEPT !.month = @ + 1, !.cash = new_cash, !.savings = new_savings,
               !.debt = new_debt, !.creditScore = new_score,
               !.history = Append(@, [snapshot EXCEPT !.cash = st.cash])]

\* A mutant of Advance: the month counter is not incremented.
Advance_month_kept(st, new_cash, new_savings, new_debt, new_score, snapshot) ==
    [st EXCEPT !.cash = new_cash, !.savings = new_savings, !.debt = new_debt,
               !.creditScore = new_score, !.history = Append(@, snapshot)]

\* The "Advance" step of close_month: the state's fields overwritten
Advance(st, new_cash, new_savings, new_debt, new_score, snapshot) ==
    [st EXCEPT !.month = @ + 1, !.cash = new_cash, !.savings = new_savings,
               !.debt = new_debt, !.creditScore = new_score,
               !.history = Append(@, snapshot)]

\* close_month(state, fixed_needs_costs, credit_limit): the state after it
\* and the returned snapshot, pay tuple and allocation tuple
close_month(st, fixed_needs_costs, credit_limit) ==
    LET pay == compute_net_pay(st.income.hoursPerWeek, st.income.wagePerHour,
                               st.income.withholdingRate)
        alloc == apply_budget(pay.net, st.budget_needs, st.budget_wants,
                              st.budget_savings, fixed_needs_costs)
        cc == CreditCardStep(st.debt, st.choices)
        new_cash == RoundHalfEven(
                        st.cash * 100 + alloc.leftover - cc.payment * 100
                            - alloc.wants_spend - alloc.needs_spend, 100)
        new_savings == RoundHalfEven(st.savings * 100 + alloc.savings_add, 100)
        new_score == IF credit_limit = 0
                     THEN update_credit_score(st.creditScore, 0, 1,
                                              cc.payment >= cc.min_payment)
                     ELSE update_credit_score(st.creditScore, cc.new_debt, credit_limit,
                                              cc.payment >= cc.min_payment)
        snapshot == [month |-> st.month,
                     netWorth |-> new_cash + new_savings - cc.new_debt,
                     cash |-> new_cash, savings |-> new_savings,
                     debt |-> cc.new_debt, creditScore |-> new_score]
    IN  [state |-> Advance(st, new_cash, new_savings, cc.new_debt, new_score, snapshot),
         snapshot |-> snapshot, pay |-> pay, alloc |-> alloc, cc |-> cc]

\* fixed_needs_from_choices(state): cents
fixed_needs_from_choices(st) ==
    LET Cost(i) == LET chosen == Get(st.choices, CHOICES[i].id, NoChoice)
                   IN  IF chosen # NoChoice /\ chosen \in DOMAIN CHOICES[i].cost
                       THEN CHOICES[i].cost[chosen] ELSE 0
    IN  100 * (Cost(1) + Cost(2) + Cost(3))

(***************************************************************************)
(* Save documents.  A document is the value json.loads returns for the     *)
(* uploaded text, tagged with its type (num: int or float, in the unit of  *)
(* the field that holds it; str; bool; null: None; arr: list; obj: dict),  *)
(* or NotJson for a text on which json.loads raises.  Texts that stand     *)
(* where a number is expected are sequences of characters.                 *)
(***************************************************************************)
JNull == [t |-> "null"]
JBool(b) == [t |-> "bool", v |-> b]
JNum(n) == [t |-> "num", v |-> n]
JStr(x) == [t |-> "str", v |-> x]
JArr(a) == [t |-> "arr", v |-> a]
JObj(o) == [t |-> "obj", v |-> o]
NotJson == [t |-> "invalid"]

\* The Python value json.loads gives for a JSON value
RECURSIVE PyValue(_)
PyValue(x) ==
    CASE x.t \in {"num", "str", "bool"} -> x.v
      [] x.t = "null" -> None
      [] x.t = "arr" -> [i \in 1..Len(x.v) |-> PyValue(x.v[i])]
      [] x.t = "obj" -> [k \in DOMAIN x.v |-> PyValue(x.v[k])]

\* An exception raised inside a try block
Raised == [ok |-> FALSE]
Returned(v) == [ok |-> TRUE, v |-> v]

\* int(x) and float(x) for a field whose unit is 1/scale: a number is
\* taken as it is, True and False are 1 and 0, a text is parsed, and
\* None, a list or a dict raises TypeError.
ToNumber(x, scale) ==
    CASE x.t = "num" -> Returned(x.v)
      [] x.t = "bool" -> Returned(IF x.v THEN scale ELSE 0)
      [] x.t = "str" ->
            IF FloatParses(strip(x.v)) THEN Returned(scale * FloatValue(strip(x.v)))
            ELSE Raised
      [] OTHER -> Raised

\* dict(x): a copy of a dict, {} for an empty list or text; None, a number
\* and a list or text of elements that are not pairs raise.
ToDict(x) ==
    CASE x.t = "obj" -> Returned(PyValue(x))
      [] x.t \in {"arr", "str"} -> IF Len(x.v) = 0 THEN Returned(<<>>) ELSE Raised
      [] OTHER -> Raised

SnapshotFields == {"month", "netWorth", "cash", "savings", "debt", "creditScore"}

\* [MonthlySnapshot(**h) for h in x]: every element must be a dict with
\* the six field names as its keys; the values are stored as they come.
\* Iterating an empty dict or text gives []; None and numbers raise.
ToHistory(x) ==
    CASE x.t = "arr" ->
            IF \A i \in 1..Len(x.v) :
                  x.v[i].t = "obj" /\ DOMAIN x.v[i].v = SnapshotFields
            THEN Returned(PyValue(x))
            ELSE Raised
      [] x.t = "obj" -> IF DOMAIN x.v = {} THEN Returned(<<>>) ELSE Raised
      [] x.t = "str" -> IF Len(x.v) = 0 THEN Returned(<<>>) ELSE Raised
      [] OTHER -> Raised

\* export_save writing no history
export_save_without_history(st) ==
    JObj([state |-> JObj(
        [month |-> JNum(st.month),
         cash |-> JNum(st.cash),
         savings |-> JNum(st.savings),
         debt |-> JNum(st.debt),
         creditScore |-> JNum(st.creditScore),
         income |-> JObj([k \in DOMAIN st.income |-> JNum(st.income[k])]),
         budget_needs |-> JNum(st.budget_needs),
         budget_wants |-> JNum(st.budget_wants),
         budget_savings |-> JNum(st.budget_savings),
         choices |-> JObj([k \in DOMAIN st.choices |-> JStr(st.choices[k])])])])

\* export_save(state): the document json.dumps writes
export_save(st) ==
    JObj([state |-> JObj(
        [month |-> JNum(st.month),
         cash |-> JNum(st.cash),
         savings |-> JNum(st.savings),
         debt |-> JNum(st.debt),
         creditScore |-> JNum(st.creditScore),
         income |-> JObj([k \in DOMAIN st.income |-> JNum(st.income[k])]),
         budget_needs |-> JNum(st.budget_needs),
         budget_wants |-> JNum(st.budget_wants),
         budget_savings |-> JNum(st.budget_savings),
         choices |-> JObj([k \in DOMAIN st.choices |-> JStr(st.choices[k])]),
         history |-> JArr([i \in 1..Len(st.history) |->
                             JObj([k \in DOMAIN st.history[i] |->
                                      JNum(st.history[i][k])])])])])

\* import_save(json_str): the PlayerState, or None (Raised) when anything
\* in the try block raises.  Every absent field takes the default of its
\* s.get(...).
import_save(doc) ==
    IF doc.t # "obj" THEN Raised
    ELSE LET s == Get(doc.v, "state", JObj(<<>>))
         IN  IF s.t # "obj" THEN Raised
             ELSE LET inc == Get(s.v, "income", JObj(<<>>))
                  IN  IF inc.t # "obj" THEN Raised
                      ELSE LET month == ToNumber(Get(s.v, "month", JNum(1)), 1)
                               cash == ToNumber(Get(s.v, "cash", JNum(0)), 1)
                               savings == ToNumber(Get(s.v, "savings", JNum(0)), 1)
                               debt == ToNumber(Get(s.v, "debt", JNum(0)), 1)
                               creditScore ==
                                   ToNumber(Get(s.v, "creditScore", JNum(680)), 1)
                               hoursPerWeek ==
                                   ToNumber(Get(inc.v, "hoursPerWeek", JNum(80)), 4)
                               wagePerHour ==
                                   ToNumber(Get(inc.v, "wagePerHour", JNum(1500)), 100)
                               withholdingRate ==
                                   ToNumber(Get(inc.v, "withholdingRate", JNum(12)), 100)
                               budget_needs ==
                                   ToNumber(Get(s.v, "budget_needs", JNum(50)), 100)
                               budget_wants ==
                                   ToNumber(Get(s.v, "budget_wants", JNum(30)), 100)
                               budget_savings ==
                                   ToNumber(Get(s.v, "budget_savings", JNum(20)), 100)
                               choices == ToDict(Get(s.v, "choices", JObj(<<>>)))
                               history == ToHistory(Get(s.v, "history", JArr(<<>>)))
                           IN  IF /\ month.ok /\ cash.ok /\ savings.ok /\ debt.ok
                                  /\ creditScore.ok /\ hoursPerWeek.ok /\ wagePerHour.ok
                                  /\ withholdingRate.ok /\ budget_needs.ok
                                  /\ budget_wants.ok /\ budget_savings.ok
                                  /\ choices.ok /\ history.ok
                               THEN Returned(
                                      [month |-> month.v, cash |-> cash.v,
                                       savings |-> savings.v, debt |-> debt.v,
                                       creditScore |-> creditScore.v,
                                       income |-> [hoursPerWeek |-> hoursPerWeek.v,
                                                   wagePerHour |-> wagePerHour.v,
                                                   withholdingRate |-> withholdingRate.v],
                                       budget_needs |-> budget_needs.v,
                                       budget_wants |-> budget_wants.v,
                                       budget_savings |-> budget_savings.v,
                                       choices |-> choices.v, history |-> history.v])
                               ELSE Raised

\* The sidebar's Load Save with an uploaded document: the state of
\* st.session_state after it
LoadSaveSidebar(st, doc) ==
    LET loaded == import_save(doc)
    IN  IF loaded.ok THEN loaded.v ELSE st

(***************************************************************************)
(* src/app.py: SaveState.to_json, SaveState.from_json and the Load Save of *)
(* the Profile tab.                                                        *)
(***************************************************************************)
\* Optional[str]
JOptStr(x) == IF x = None THEN JNull ELSE JStr(x)

\* json.dumps(asdict(self))
to_json(sv) ==
    JObj([display_name |-> JStr(sv.display_name),
          total_points |-> JNum(sv.total_points),
          streak |-> JNum(sv.streak),
          last_played |-> JOptStr(sv.last_played),
          streak_freezes |-> JNum(sv.streak_freezes),
          history |-> JArr([i \in 1..Len(sv.history) |->
              LET h == sv.history[i]
              IN  JObj([date |-> JStr(h.date), score |-> JNum(h.score),
                        correct |-> JNum(h.correct), total |-> JNum(h.total),
                        finished_by_progress |-> JBool(h.finished_by_progress),
                        categories |-> JArr([j \in 1..Len(h.categories) |->
                                                JStr(h.categories[j])])])]),
          category_stats |-> JObj([c \in DOMAIN sv.category_stats |->
              JObj([k \in DOMAIN sv.category_stats[c] |->
                       JNum(sv.category_stats[c][k])])]),
          badges |-> JObj([b \in sv.badges |-> JBool(TRUE)]),
          room_code |-> JOptStr(sv.room_code)])

SaveFields == DOMAIN NewSaveState

\* SaveState(**json.loads(s)): raises when the text is not JSON, when the
\* value is not a dict and when a key is not a field of SaveState; absent
\* fields take the dataclass defaults and no value is converted.
from_json(doc) ==
    IF doc.t # "obj" THEN Raised
    ELSE IF ~(DOMAIN doc.v \subseteq SaveFields) THEN Raised
    ELSE Returned([f \in SaveFields |->
            IF f \notin DOMAIN doc.v THEN NewSaveState[f]
            ELSE IF f = "badges" THEN DOMAIN PyValue(doc.v[f])
            ELSE PyValue(doc.v[f])])

\* The Profile tab's Load Save with an uploaded document: the save of
\* st.session_state after it
LoadSaveProfile(sv, doc) ==
    LET loaded == from_json(doc)
    IN  IF loaded.ok THEN loaded.v ELSE sv

\* st.file_uploader returns None: no file is held
NoFile == [t |-> "nofile"]

\* The end of every script run, the Load Save of the Profile tab: while the
\* uploader holds a file, st.session_state.save is replaced by the save
\* read from it (the run's own `save` object, changed or not, is dropped).
ProfileTab(sv, file) == IF file = NoFile THEN sv ELSE LoadSaveProfile(sv, file)

\* The Choices tab, which every script run executes before the Results tab:
\* each radio shows the stored option (the first option when none is
\* stored) and its value is written back to state.choices.
ChoicesTab(st) ==
    [st EXCEPT !.choices =
        [cid \in ChoiceIds |->
            LET c == CHOICES[CHOOSE i \in 1..Len(CHOICES) : CHOICES[i].id = cid]
                current_key == Get(st.choices, cid, NoChoice)
            IN  IF current_key \in DOMAIN c.cost THEN current_key ELSE c.order[1]]]

\* The Budget tab with the sliders at n and w
BudgetTab(st, n, w) ==
    LET s == IF 100 - n - w < 0 THEN 0 ELSE 100 - n - w
    IN  [st EXCEPT !.budget_needs = n, !.budget_wants = w, !.budget_savings = s]

(***************************************************************************)
(* Values of the variables a specification does not use.                   *)
(***************************************************************************)
IdleCall == [op |-> "start"]
IdleQuiz ==
    /\ bank = <<>>
    /\ play = NewPlaySession(DEMO_DATE, <<>>)
    /\ recorded_today = None
    /\ up = NoFile
IdleSave == save = NewSaveState
IdleState == state = NewPlayerState

(***************************************************************************)
(* Spec: the quiz.  Init is the state after the first script run:          *)
(* get_save() and get_session() have created the save and the session.     *)
(***************************************************************************)
Init ==
    /\ bank \in {get_day_questions(n) : n \in 1..MaxQ}
    /\ play = NewPlaySession(DEMO_DATE, bank)
    /\ save = NewSaveState
    /\ recorded_today = None
    /\ up = NoFile
    /\ IdleState
    /\ call = [op |-> "start", hinted |-> FALSE]

\* The Hint button of the current question.  call.hinted records, apart
\* from the session's own used_hint, that the button was pressed on the
\* question on display before its answer was submitted.
Hint ==
    /\ ~play.completed
    /\ play' = IF ~play.answered THEN [play EXCEPT !.used_hint = TRUE] ELSE play
    /\ save' = ProfileTab(save, up)
    /\ call' = [op |-> "hint", hinted |-> (call.hinted \/ ~play.answered)]
    /\ UNCHANGED <<bank, recorded_today, up, state>>

\* The Submit button with raw in the answer widget: the submission, the
\* progress finish and, when the session completed, the rerun that records
\* the day.
Submit(raw) ==
    /\ ~play.completed
    /\ LET q == play.questions[play.idx + 1]
           b == SubmitButton(play, q, raw)
           p1 == IF b.submitted /\ ~play.answered
                 THEN finish_day_by_progress_if_needed(AfterSubmit(play, q, b.got_right))
                 ELSE play
           r == ScriptRun(p1, save, recorded_today)
       IN  /\ play' = r.play
           /\ save' = ProfileTab(r.save, up)
           /\ recorded_today' = r.recorded_today
           /\ call' = [op |-> IF b.submitted /\ ~play.answered
                              THEN "submit" ELSE "rejected",
                       raw |-> raw, hinted |-> call.hinted]
    /\ UNCHANGED <<bank, up, state>>

\* The Next button (shown while answered and not completed), and the rerun
Next_ ==
    /\ play.answered /\ ~play.completed
    /\ LET r == ScriptRun(NextButton(play), save, recorded_today)
       IN  /\ play' = r.play
           /\ save' = ProfileTab(r.save, up)
           /\ recorded_today' = r.recorded_today
    /\ call' = [op |-> "next", hinted |-> FALSE]
    /\ UNCHANGED <<bank, up, state>>

\* The Replay Today button of the completed branch, and the rerun
Replay ==
    /\ play.completed
    /\ LET r == ScriptRun(NewPlaySession(DEMO_DATE, bank), save, recorded_today)
       IN  /\ play' = r.play
           /\ save' = ProfileTab(r.save, up)
           /\ recorded_today' = r.recorded_today
    /\ call' = [op |-> "replay", hinted |-> FALSE]
    /\ UNCHANGED <<bank, up, state>>

Next ==
    \/ Hint
    \/ \E raw \in UserInputs(play.questions[Min(play.idx + 1, Len(play.questions))]) :
          Submit(raw)
    \/ Next_
    \/ Replay

Spec == Init /\ [][Next]_vars

(***************************************************************************)
(* SpecSession: one PlaySession on a day of up to SessionQ questions, from *)
(* its creation to its completion (the buttons of the question branch; the *)
(* session is not replayed).  With 7 questions a fourth correct answer in  *)
(* a row leaves the progress bar short of full (6.3 of 7).                 *)
(***************************************************************************)
InitSession ==
    /\ bank \in {get_day_questions(n) : n \in 1..SessionQ}
    /\ play = NewPlaySession(DEMO_DATE, bank)
    /\ save = NewSaveState
    /\ recorded_today = None
    /\ up = NoFile
    /\ IdleState
    /\ call = [op |-> "start", hinted |-> FALSE]

NextSession ==
    \/ Hint
    \/ \E raw \in UserInputs(play.questions[Min(play.idx + 1, Len(play.questions))]) :
          Submit(raw)
    \/ Next_

SpecSession == InitSession /\ [][NextSession]_vars

(***************************************************************************)
(* SpecRestore: the quiz with the Load Save of its Profile tab.  Init is a *)
(* fresh application session (no recorded_today key).  A file put into the *)
(* uploader stays there, and is loaded again by every script run, until    *)
(* the user takes it out.  The files are the saves downloaded after a      *)
(* played day, and a file that is not a save.                              *)
(***************************************************************************)
\* the most questions of the day in SpecRestore
RestoreQ == 2

\* The completed sessions of the day's questions, every answer right or
\* every answer wrong
RECURSIVE PlayAll(_, _)
PlayAll(p, got_right) ==
    IF p.completed THEN p
    ELSE LET p1 == finish_day_by_progress_if_needed(
                     AfterSubmit(p, p.questions[p.idx + 1], got_right))
         IN  PlayAll(IF p1.completed THEN p1 ELSE NextButton(p1), got_right)

RestoreFiles ==
    {NotJson}
    \cup {to_json(RecordDay(PlayAll(NewPlaySession(DEMO_DATE, bank), g),
                            NewSaveState, None).save) : g \in BOOLEAN}

InitRestore ==
    /\ bank \in {get_day_questions(n) : n \in 1..RestoreQ}
    /\ play = NewPlaySession(DEMO_DATE, bank)
    /\ save = NewSaveState
    /\ recorded_today = None
    /\ up = NoFile
    /\ IdleState
    /\ call = [op |-> "start", hinted |-> FALSE]

\* A file is put into the uploader of the Profile tab, and the run
Upload(doc) ==
    /\ up = NoFile
    /\ up' = doc
    /\ LET r == ScriptRun(play, save, recorded_today)
       IN  /\ play' = r.play
           /\ save' = ProfileTab(r.save, doc)
           /\ recorded_today' = r.recorded_today
    /\ call' = [op |-> "upload", hinted |-> call.hinted]
    /\ UNCHANGED <<bank, state>>

\* The file is taken out of the uploader, and the run
ClearUpload ==
    /\ up # NoFile
    /\ up' = NoFile
    /\ LET r == ScriptRun(play, save, recorded_today)
       IN  /\ play' = r.play
           /\ save' = r.save
           /\ recorded_today' = r.recorded_today
    /\ call' = [op |-> "clear_upload", hinted |-> call.hinted]
    /\ UNCHANGED <<bank, state>>

NextRestore ==
    \/ Hint
    \/ \E raw \in UserInputs(play.questions[Min(play.idx + 1, Len(play.questions))]) :
          Submit(raw)
    \/ Next_
    \/ Replay
    \/ \E doc \in RestoreFiles : Upload(doc)
    \/ ClearUpload

SpecRestore == InitRestore /\ [][NextRestore]_vars

(***************************************************************************)
(* SpecStreak: update_streak_with_freeze on the saves a save file can hold *)
(***************************************************************************)
StreakSaves ==
    {[NewSaveState EXCEPT !.streak = k, !.last_played = lp, !.streak_freezes = f] :
        k \in 0..2, lp \in {None} \cup {isoformat(d) : d \in Dates}, f \in 0..3}

InitStreak ==
    /\ save \in StreakSaves
    /\ IdleQuiz
    /\ IdleState
    /\ call = IdleCall

UpdateStreak(playing_date) ==
    /\ save.streak < MaxStreak
    /\ save' = update_streak_with_freeze(save, playing_date)
    /\ call' = [op |-> "update_streak", playing_date |-> playing_date, before |-> save]
    /\ UNCHANGED <<bank, play, recorded_today, up, state>>

NextStreak == \E d \in Dates : UpdateStreak(d)

SpecStreak == InitStreak /\ [][NextStreak]_vars

(***************************************************************************)
(* SpecMonth: the finance simulator.  Init is the state after the first    *)
(* script run: get_state() has created the PlayerState and the Choices tab *)
(* has stored the first option of every choice.                            *)
(***************************************************************************)
\* close_month's default credit_limit, which its one caller leaves in place
DefaultCreditLimit == 500

\* Paycheck tab inputs (hours a whole number, wage in cents, rate in percent)
IncomeInputs ==
    {[hoursPerWeek |-> 80, wagePerHour |-> 1500, withholdingRate |-> 12],
     [hoursPerWeek |-> 0, wagePerHour |-> 1500, withholdingRate |-> 12]}

\* Budget tab inputs: the Needs and Wants sliders
SliderInputs == {<<50, 30>>, <<80, 50>>}

\* Choices tab inputs: a choice id and the option picked for it
ChoiceInputs ==
    {<<"phone_plan", "basic">>, <<"phone_plan", "premium">>,
     <<"credit_card", "pay_full">>, <<"credit_card", "min_pay">>}

\* Save documents the user may upload: {"state": {...}} with some fields
DocDebts == {10, 24, 300}
DocScores == {100, 305, 845, 2000}
SaveDocs ==
    {JObj([state |-> JObj([debt |-> JNum(d), creditScore |-> JNum(c)])]) :
        d \in DocDebts, c \in DocScores}
    \cup {JObj([state |-> JObj(<<>>)])}

InitMonth ==
    /\ state = ChoicesTab(NewPlayerState)
    /\ IdleQuiz
    /\ IdleSave
    /\ call = IdleCall

SetIncome(inc) ==
    /\ state' = [state EXCEPT !.income = inc]
    /\ call' = [op |-> "settings"]
    /\ UNCHANGED <<bank, play, save, recorded_today, up>>

SetBudget(n, w) ==
    /\ state' = BudgetTab(state, n, w)
    /\ call' = [op |-> "budget", n |-> n, w |-> w]
    /\ UNCHANGED <<bank, play, save, recorded_today, up>>

SetChoice(cid, opt) ==
    /\ state' = [state EXCEPT !.choices[cid] = opt]
    /\ call' = [op |-> "settings"]
    /\ UNCHANGED <<bank, play, save, recorded_today, up>>

\* The Close Month button: close_month(state, fixed_costs)
CloseMonth ==
    /\ Len(state.history) < MaxMonths
    /\ LET r == close_month(state, fixed_needs_from_choices(state), DefaultCreditLimit)
       IN  /\ state' = r.state
           /\ call' = [op |-> "close_month", before |-> state, cc |-> r.cc,
                       alloc |-> r.alloc]
    /\ UNCHANGED <<bank, play, save, recorded_today, up>>

\* The New Game button: reset_game(), then the next run's Choices tab
NewGame ==
    /\ state' = ChoicesTab(NewPlayerState)
    /\ call' = [op |-> "new_game"]
    /\ UNCHANGED <<bank, play, save, recorded_today, up>>

\* Load Save with an uploaded document, then the run's Choices tab
LoadSave(doc) ==
    /\ state' = ChoicesTab(LoadSaveSidebar(state, doc))
    /\ call' = [op |-> "load_save"]
    /\ UNCHANGED <<bank, play, save, recorded_today, up>>

NextMonth ==
    \/ \E inc \in IncomeInputs : SetIncome(inc)
    \/ \E nw \in SliderInputs : SetBudget(nw[1], nw[2])
    \/ \E co \in ChoiceInputs : SetChoice(co[1], co[2])
    \/ CloseMonth
    \/ NewGame
    \/ \E doc \in SaveDocs : LoadSave(doc)

SpecMonth == InitMonth /\ [][NextMonth]_vars

(***************************************************************************)
(* SpecBudget: apply_budget on arbitrary inputs.  Amounts are whole        *)
(* dollars, so no planned share falls on a half cent, where the float's    *)
(* rounding would depend on its binary representation.                     *)
(***************************************************************************)
BudgetNets == {0, 100, 5000, 8000, 25000, 105600}
BudgetSplits ==
    {<<50, 30, 20>>, <<80, 50, 0>>, <<0, 0, 100>>, <<100, 0, 0>>, <<10, 20, 70>>,
     <<0, 100, 0>>, <<0, 0, 0>>, <<20, 70, 10>>, <<10, 60, 30>>}
BudgetFixed == {0, 4000, 8000, 20000, 25000}

NoAlloc == [needs_spend |-> 0, wants_spend |-> 0, savings_add |-> 0, leftover |-> 0]

InitBudget ==
    /\ call \in {[op |-> "input", net_income |-> n, needs_p |-> sp[1], wants_p |-> sp[2],
                  savings_p |-> sp[3], fixed_needs_costs |-> f, out |-> NoAlloc] :
                    n \in BudgetNets, sp \in BudgetSplits, f \in BudgetFixed}
    /\ IdleQuiz
    /\ IdleSave
    /\ IdleState

ApplyBudget ==
    /\ call.op = "input"
    /\ call' = [call EXCEPT
                  !.op = "apply_budget",
                  !.out = apply_budget(call.net_income, call.needs_p, call.wants_p,
                                       call.savings_p, call.fixed_needs_costs)]
    /\ UNCHANGED <<bank, play, save, recorded_today, up, state>>

NextBudget == ApplyBudget

SpecBudget == InitBudget /\ [][NextBudget]_vars

(***************************************************************************)
(* SpecScore: update_credit_score on arbitrary inputs, and close_month     *)
(* with credit limits other than its default, on states with any debt,     *)
(* score and credit-card choice.                                           *)
(***************************************************************************)
ScoreDebts == {0, 1, 49, 50, 51, 149, 150, 151, 249, 250, 251, 500, 600}
ScoreLimits == {0, 100, 500}

ScoreStates ==
    {[ChoicesTab(NewPlayerState) EXCEPT
        !.debt = d, !.creditScore = c, !.choices["credit_card"] = o] :
        d \in {0, 1, 10, 50, 150, 250, 600, 1200, 1201, 1250, 5000},
        c \in {100, 300, 320, 680, 845, 2000},
        o \in {"pay_full", "min_pay"}}

InitScore ==
    /\ state \in ScoreStates
    /\ IdleQuiz
    /\ IdleSave
    /\ call = IdleCall

\* update_credit_score(current, debt / limit, on_time) on the state's score
UpdateCreditScore(debt, limit, on_time) ==
    /\ call' = [op |-> "update_credit_score", current |-> state.creditScore,
                util_num |-> debt, util_den |-> limit, on_time |-> on_time,
                out |-> update_credit_score(state.creditScore, debt, limit, on_time)]
    /\ UNCHANGED <<bank, play, save, recorded_today, up, state>>

\* close_month(state, fixed_costs, credit_limit)
CloseMonthWithLimit(credit_limit) ==
    /\ Len(state.history) < MaxMonths
    /\ LET r == close_month(state, fixed_needs_from_choices(state), credit_limit)
       IN  /\ state' = r.state
           /\ call' = [op |-> "close_month_limit", before |-> state,
                       credit_limit |-> credit_limit, cc |-> r.cc]
    /\ UNCHANGED <<bank, play, save, recorded_today, up>>

NextScore ==
    \/ \E d \in ScoreDebts, l \in ScoreLimits \ {0}, o \in BOOLEAN :
          UpdateCreditScore(d, l, o)
    \/ \E l \in ScoreLimits : CloseMonthWithLimit(l)

SpecScore == InitScore /\ [][NextScore]_vars

(***************************************************************************)
(* SpecPay: compute_net_pay on arbitrary inputs.  The hours are 0, 0.25,   *)
(* 1.25, 20 and 37.5, the wages 0, 0.25, 7.25 and 15 dollars and the rates *)
(* 0, 0.12, 0.5 and 1: with them every amount that falls on a half cent is *)
(* a multiple of 1/8 dollar, which the float holds exactly.                *)
(***************************************************************************)
PayHours == {0, 1, 5, 80, 150}
PayWages == {0, 25, 725, 1500}
PayRates == {0, 12, 50, 100}
NoPay == [gross |-> 0, withheld |-> 0, net |-> 0]

InitPay ==
    /\ call \in {[op |-> "input", hours_per_week |-> h, wage |-> w,
                  withholding_rate |-> r, out |-> NoPay] :
                    h \in PayHours, w \in PayWages, r \in PayRates}
    /\ IdleQuiz
    /\ IdleSave
    /\ IdleState

ComputeNetPay ==
    /\ call.op = "input"
    /\ call' = [call EXCEPT
                  !.op = "compute_net_pay",
                  !.out = compute_net_pay(call.hours_per_week, call.wage,
                                          call.withholding_rate)]
    /\ UNCHANGED <<bank, play, save, recorded_today, up, state>>

NextPay == ComputeNetPay

SpecPay == InitPay /\ [][NextPay]_vars

(***************************************************************************)
(* SpecClean: clean_text on every text of at most MaxText characters.      *)
(***************************************************************************)
RECURSIVE Texts(_)
Texts(n) ==
    IF n = 0 THEN {<<>>}
    ELSE Texts(n - 1) \cup {Append(t, c) : t \in Texts(n - 1), c \in TextChars}

InitClean ==
    /\ call \in {[op |-> "input", s |-> t, out |-> <<>>] : t \in Texts(MaxText)}
    /\ IdleQuiz
    /\ IdleSave
    /\ IdleState

CleanText ==
    /\ call.op = "input"
    /\ call' = [call EXCEPT !.op = "clean_text", !.out = clean_text(call.s)]
    /\ UNCHANGED <<bank, play, save, recorded_today, up, state>>

NextClean == CleanText

SpecClean == InitClean /\ [][NextClean]_vars

(***************************************************************************)
(* SpecSave: the save files of both programs.  The finance simulator is    *)
(* played (choices, Close Month), its save is downloaded and documents are *)
(* uploaded in its sidebar; the quiz save records played days, is          *)
(* downloaded and documents are uploaded in the Profile tab.  Init is the  *)
(* state after the first script run, whose sidebar has rendered the        *)
(* download button with the document of the fresh PlayerState.             *)
(***************************************************************************)
\* A save of a game after its first month
PlayedState ==
    LET st == ChoicesTab(NewPlayerState)
    IN  close_month(st, fixed_needs_from_choices(st), DefaultCreditLimit).state

\* Documents with fields missing
PartialFiles ==
    {JObj(<<>>),
     JObj([state |-> JObj(<<>>)]),
     JObj([state |-> JObj([month |-> JNum(3), debt |-> JNum(40)])]),
     JObj([state |-> JObj([cash |-> JNum(75),
                           income |-> JObj([hoursPerWeek |-> JNum(40)])])]),
     JObj([state |-> JObj([month |-> JStr(<<"3">>)])])}

\* Documents that are not JSON or hold a value that cannot stand for its
\* field
MalformedFiles ==
    {NotJson,
     JArr(<<>>),
     JObj([state |-> JNull]),
     JObj([state |-> JObj([month |-> JStr(<<"a", "b">>)])]),
     JObj([state |-> JObj([income |-> JArr(<<>>)])]),
     JObj([state |-> JObj([choices |-> JNull])]),
     JObj([state |-> JObj([history |-> JArr(<<JObj([month |-> JNum(1)])>>)])])}

\* A document whose history holds a snapshot with a text and a null where
\* numbers belong
GarbledFiles ==
    {JObj([state |-> JObj([history |-> JArr(<<JObj(
        [month |-> JStr(<<"x">>), netWorth |-> JNull, cash |-> JNum(1),
         savings |-> JNum(1), debt |-> JNum(1), creditScore |-> JNum(1)])>>)])])}

SaveFiles == {export_save(PlayedState)} \cup PartialFiles \cup MalformedFiles

\* The sessions of a one-question day, answered right or wrong
PlayedSessions ==
    {finish_day_by_progress_if_needed(
        AfterSubmit(NewPlaySession(DEMO_DATE, get_day_questions(1)),
                    Question(1), got_right)) : got_right \in BOOLEAN}

\* Quiz save documents: not JSON, not a dict, an unknown key, no field, a
\* save with some fields, and the save of a played day
QuizFiles ==
    {NotJson,
     JArr(<<>>),
     JObj([bogus |-> JNum(1)]),
     JObj(<<>>),
     JObj([streak |-> JNum(4), last_played |-> JStr(<<2025, 10, 4>>),
           room_code |-> JStr(<<"R", "7">>)])}
    \cup {to_json(RecordDay(p, NewSaveState, None).save) : p \in PlayedSessions}

InitSave ==
    /\ state = ChoicesTab(NewPlayerState)
    /\ save = NewSaveState
    /\ IdleQuiz
    /\ call = [op |-> "download", before |-> NewPlayerState,
               doc |-> export_save(NewPlayerState)]

\* Download Save of the sidebar: export_save(state)
DownloadSave ==
    /\ call' = [op |-> "download", before |-> state, doc |-> export_save(state)]
    /\ UNCHANGED <<bank, play, save, recorded_today, up, state>>

\* Load Save of the sidebar with an uploaded document, then the run's
\* Choices tab
LoadSaveFile(doc) ==
    /\ state' = ChoicesTab(LoadSaveSidebar(state, doc))
    /\ call' = [op |-> "load_file", before |-> state, doc |-> doc]
    /\ UNCHANGED <<bank, play, save, recorded_today, up>>

\* Download Save of the Profile tab: save.to_json()
DownloadQuizSave ==
    /\ call' = [op |-> "download_quiz", doc |-> to_json(save)]
    /\ UNCHANGED <<bank, play, save, recorded_today, up, state>>

\* Load Save of the Profile tab with an uploaded document
LoadQuizSave(doc) ==
    /\ save' = LoadSaveProfile(save, doc)
    /\ call' = [op |-> "load_quiz", before |-> save, doc |-> doc]
    /\ UNCHANGED <<bank, play, recorded_today, up, state>>

\* A one-question day is played to its end and recorded
PlayDay(p) ==
    /\ LET r == RecordDay(p, save, recorded_today)
       IN  /\ save' = r.save
           /\ recorded_today' = r.recorded_today
    /\ call' = [op |-> "play_day"]
    /\ UNCHANGED <<bank, play, up, state>>

NextSave ==
    \/ DownloadSave
    \/ \E doc \in SaveFiles : LoadSaveFile(doc)
    \/ SetChoice("credit_card", "min_pay")
    \/ CloseMonth
    \/ DownloadQuizSave
    \/ \E doc \in QuizFiles : LoadQuizSave(doc)
    \/ \E p \in PlayedSessions : PlayDay(p)

SpecSave == InitSave /\ [][NextSave]_vars

(***************************************************************************)
(* SpecCredit: the credit card of the finance simulator.  Save files that  *)
(* hold a debt (import_save takes any integer) are loaded, the credit-card *)
(* choice is set and months are closed.                                    *)
(***************************************************************************)
DebtFiles ==
    {JObj([state |-> JObj([debt |-> JNum(d)])]) :
        d \in {0 - 100, 0 - 1, 0, 1, 24, 25, 26, 300}}

InitCredit ==
    /\ state = ChoicesTab(NewPlayerState)
    /\ IdleQuiz
    /\ IdleSave
    /\ call = IdleCall

NextCredit ==
    \/ \E doc \in DebtFiles : LoadSaveFile(doc)
    \/ \E opt \in {"pay_full", "min_pay"} : SetChoice("credit_card", opt)
    \/ CloseMonth

SpecCredit == InitCredit /\ [][NextCredit]_vars

(***************************************************************************)
(* SpecGame: one game from its start.  The state is the one get_state()    *)
(* or reset_game() creates, the choices are changed and months are closed; *)
(* no save file is loaded.  SpecGameFair adds that the Close Month button  *)
(* is pressed again and again (up to GameMonths times).                    *)
(***************************************************************************)
\* Number of months closed in one game.  From 680 the score takes 13
\* months of +14 to pass 850.
GameMonths == 14

InitGame ==
    /\ state = ChoicesTab(NewPlayerState)
    /\ IdleQuiz
    /\ IdleSave
    /\ call = IdleCall

\* The Close Month button: close_month(state, fixed_costs)
CloseGameMonth ==
    /\ Len(state.history) < GameMonths
    /\ LET r == close_month(state, fixed_needs_from_choices(state), DefaultCreditLimit)
       IN  /\ state' = r.state
           /\ call' = [op |-> "close_month", before |-> state, cc |-> r.cc,
                       alloc |-> r.alloc]
    /\ UNCHANGED <<bank, play, save, recorded_today, up>>

NextGame ==
    \/ \E co \in ChoiceInputs : SetChoice(co[1], co[2])
    \/ CloseGameMonth

SpecGame == InitGame /\ [][NextGame]_vars

\* Weak fairness of CloseGameMonth, WF_vars(CloseGameMonth), written out as
\* []<>(~ENABLED <<CloseGameMonth>>_vars) \/ []<><<CloseGameMonth>>_vars with
\* the guard of the action for its ENABLED: close_month is defined on every
\* state and lengthens the history, so the action is enabled exactly when
\* its guard holds.
SpecGameFair ==
    /\ SpecGame
    /\ \/ []<>(~(Len(state.history) < GameMonths))
       \/ []<><<CloseGameMonth>>_vars

(***************************************************************************)
(* SpecLoad: documents are uploaded to both programs, one after another,   *)
(* among them a document whose snapshot values are not numbers; the        *)
(* sessions are not played on.                                             *)
(***************************************************************************)
InitLoad ==
    /\ state = ChoicesTab(NewPlayerState)
    /\ save = NewSaveState
    /\ IdleQuiz
    /\ call = IdleCall

NextLoad ==
    \/ \E doc \in SaveFiles \cup GarbledFiles : LoadSaveFile(doc)
    \/ \E doc \in QuizFiles : LoadQuizSave(doc)

SpecLoad == InitLoad /\ [][NextLoad]_vars

(***************************************************************************)
(* Claims about the quiz session (checked under Spec).                     *)
(***************************************************************************)
AllCorrectNoHint(p) ==
    \A i \in 1..Len(p.results) : p.results[i].correct /\ ~p.results[i].used_hint

\* The reward of an accepted submit, read off the result entry it appended
RewardOf(r) ==
    IF r.correct THEN (IF r.used_hint THEN POINTS_CORRECT_HINT ELSE POINTS_CORRECT)
    ELSE 0

\* C1: a completed session in which all N questions were answered, every
\* answer was correct and no hint was used has score_today = 10 * N + 20,
\* and that is the score added to the lifetime total when it is recorded.
C1_PerfectDayScore ==
    (/\ play.completed
     /\ play.answered_count = Len(play.questions)
     /\ AllCorrectNoHint(play))
    => /\ play.score_today = 10 * Len(play.questions) + 20
       /\ (save.history[1].score = play.score_today
            => save.total_points = 10 * Len(play.questions) + 20)

\* C2: a submit that raises progress to 1.0 while questions are unanswered
\* completes the session at once with finished_by_progress set; score_today
\* grows by the answer's reward plus 6 for every unanswered question; the
\* +20 bonus is added neither then nor when the day is recorded (the score
\* recorded is that same score_today and perfect_day is not awarded).
C2_ProgressFinish ==
    [][(/\ call'.op = "submit"
        /\ play'.progress_visual >= ProgressFull(play')
        /\ play'.answered_count < Len(play'.questions))
       => /\ play'.completed
          /\ play'.finished_by_progress
          /\ play'.score_today =
                play.score_today + RewardOf(play'.results[Len(play'.results)])
                + 6 * (Len(play'.questions) - play'.answered_count)
          /\ "perfect_day" \notin save'.badges
          /\ (recorded_today = None
                => /\ save'.total_points = save.total_points + play'.score_today
                   /\ save'.history[Len(save'.history)].score = play'.score_today)]_vars

\* C2 witness: a progress finish with a question unanswered and every
\* answer so far correct
C2_Witness ==
    /\ call.op = "submit"
    /\ play.completed /\ play.finished_by_progress
    /\ play.answered_count < Len(play.questions)
    /\ AllCorrectNoHint(play)
    /\ Len(save.history) = 1 /\ save.history[1].score = play.score_today

\* C3: the day-completion side effect is applied on the first entry into
\* Completed (streak, category counters, total_points, one day-summary) and
\* by no other step: a later completion of a replayed session of the same
\* date leaves the save as it is.
C3_RecordedOnce ==
    /\ [](Len(save.history) <= 1 /\ (play.completed => Len(save.history) = 1))
    /\ [][IF ~play.completed /\ play'.completed /\ Len(save.history) = 0
          THEN /\ Len(save'.history) = 1
               /\ save'.history[1].date = isoformat(play'.date)
               /\ save'.history[1].score = play'.score_today
               /\ save'.total_points = save.total_points + play'.score_today
               /\ save'.streak = 1
               /\ save'.last_played = isoformat(play'.date)
               /\ save'.category_stats = AddCatStats(<<>>, play'.results)
          ELSE save' = save]_vars

\* C3 witness: a replayed session has completed with a score other than
\* the recorded one, and the save still holds the first day-summary only
C3_Witness ==
    /\ play.completed
    /\ Len(save.history) = 1
    /\ save.history[1].score # play.score_today
    /\ save.total_points = save.history[1].score

\* An empty or unparseable numeric answer, or an empty or whitespace-only
\* fill-in-blank answer, to question q
InvalidAnswer(q, raw) ==
    \/ /\ q.type = "numeric"
       /\ (strip(raw) = <<>> \/ ~FloatParses(RemoveCommas(strip(raw))))
    \/ /\ q.type = "fib"
       /\ strip(raw) = <<>>

\* C11: pressing Submit on an unanswered numeric question with an empty or
\* unparseable text, or on an unanswered fill-in-blank question with an
\* empty or whitespace-only text, changes nothing: answered stays false and
\* answered_count, results, score_today, correct_streak and progress (the
\* whole session and the save) are as before.
C11_InvalidSubmitRejected ==
    [][(/\ call'.op \in {"submit", "rejected"}
        /\ ~play.answered
        /\ InvalidAnswer(play.questions[play.idx + 1], call'.raw))
       => (play' = play /\ save' = save)]_vars

\* Whether raw is the right answer to question q
RightAnswer(q, raw) ==
    CASE q.type = "mc" -> check_mc(raw, q.answer)
      [] q.type = "truefalse" -> check_tf(raw, q.answer)
      [] q.type = "numeric" -> check_numeric_text(raw, q.answer_num, q.tolerance)
      [] q.type = "fib" -> check_fib(raw, q.answer_text)

\* What a progress finish adds to score_today in the step to p
ProgressFinishBonus(p) ==
    IF p.completed
    THEN PROGRESS_FINISH_PER_Q * (Len(p.questions) - p.answered_count) ELSE 0

\* C12: an accepted submit adds to score_today (apart from the bonus of a
\* progress finish it triggers) exactly 10 if the answer is correct and no
\* hint was requested on this question before the answer, exactly 5 if it
\* is correct and a hint was requested on this question, however often,
\* and 0 if it is incorrect; hints on earlier questions and hints after the
\* answer do not count.
C12_SubmitReward ==
    [][call'.op = "submit"
       => play'.score_today - play.score_today - ProgressFinishBonus(play')
            = IF RightAnswer(play.questions[play.idx + 1], call'.raw)
              THEN (IF call.hinted THEN 5 ELSE 10)
              ELSE 0]_vars

\* C12 witness: the first question was answered correctly with a hint
\* (+5) and the second question has just been answered correctly with no
\* hint requested on it (+10)
C12_Witness ==
    /\ call.op = "submit" /\ ~call.hinted
    /\ ~play.completed
    /\ Len(play.results) = 2
    /\ play.results[1].correct /\ play.results[1].used_hint
    /\ play.results[2].correct /\ ~play.results[2].used_hint
    /\ play.score_today = 15

\* boost(streakLength) of the documentation, in tenths
DocumentedBoost(n) ==
    CASE n = 1 -> 10 [] n = 2 -> 15 [] n = 3 -> 18 [] n >= 4 -> 20

\* C18: on each accepted submit a correct answer increments correct_streak
\* by 1 and adds (1/questionCount) * boost to progress, with boost 1.0, 1.5,
\* 1.8, 2.0 for the new streak length 1, 2, 3, >= 4; an incorrect answer
\* sets correct_streak to 0 and adds exactly 1/questionCount; the result is
\* capped at 1.0.  (Progress is in units of 1/(10 * questionCount).)
C18_ComboProgress ==
    [][call'.op = "submit"
       => IF RightAnswer(play.questions[play.idx + 1], call'.raw)
          THEN /\ play'.correct_streak = play.correct_streak + 1
               /\ play'.progress_visual =
                     Min(10 * Len(play.questions),
                         play.progress_visual + DocumentedBoost(play'.correct_streak))
          ELSE /\ play'.correct_streak = 0
               /\ play'.progress_visual =
                     Min(10 * Len(play.questions), play.progress_visual + 10)]_vars

\* C18 witness: on a day of seven questions the first four answers were
\* correct: the streak is 4 and the progress is (1 + 1.5 + 1.8 + 2) / 7,
\* below the cap
C18_Witness ==
    /\ call.op = "submit"
    /\ Len(play.questions) = 7
    /\ Len(play.results) = 4
    /\ play.correct_streak = 4
    /\ play.progress_visual = 10 + 15 + 18 + 20
    /\ ~play.completed

\* C19: within one PlaySession, over any sequence of hint, submit and next
\* actions, progress_visual stays in [0, 1] and never decreases, and
\* score_today never decreases.  (Replay starts another session.)
C19_ProgressAndScoreMonotone ==
    /\ [](0 <= play.progress_visual /\ play.progress_visual <= 10 * Len(play.questions))
    /\ [][call'.op \in {"hint", "submit", "rejected", "next"}
          => /\ play'.progress_visual >= play.progress_visual
             /\ play'.score_today >= play.score_today]_vars

\* C19 witness: the second of two questions has been answered, both right:
\* the sum 1/2 + 1.5/2 was cut to 1.0
C19_Witness ==
    /\ call.op = "submit"
    /\ Len(play.questions) = 2
    /\ play.correct_streak = 2
    /\ play.progress_visual = 20
    /\ play.score_today > 0

\* C20: at most one question is outstanding and each question is answered
\* at most once: in every reachable session state that is not completed,
\* len(results) = answered_count = idx + (1 if answered else 0) and
\* idx < questionCount; a submit while answered is true changes nothing;
\* and next only happens while answered is true.
C20_OneOutstandingQuestion ==
    /\ [](~play.completed
          => /\ Len(play.results) = play.answered_count
             /\ play.answered_count = play.idx + (IF play.answered THEN 1 ELSE 0)
             /\ play.idx < Len(play.questions))
    /\ [][(call'.op \in {"submit", "rejected"} /\ play.answered)
          => (play' = play /\ save' = save /\ recorded_today' = recorded_today)]_vars
    /\ [][call'.op = "next" => play.answered]_vars

\* C20 witness: Submit was pressed again on the second question, already
\* answered, with a right answer in the widget; the session has the two
\* results it had
C20_Witness ==
    /\ call.op = "rejected"
    /\ play.answered /\ ~play.completed
    /\ play.idx = 1
    /\ Len(play.results) = 2
    /\ RightAnswer(play.questions[2], call.raw)

\* C21: Completed is terminal: once play.completed is true no submit, hint
\* or next is accepted, and results, answered_count, idx and progress of
\* the session never change again; the only step on is replay, which
\* installs a brand-new session (idx 0, score_today 0, no results,
\* progress 0, not completed) and leaves the SaveState unchanged.
C21_CompletedIsTerminal ==
    [][play.completed
       => /\ call'.op = "replay"
          /\ play'.idx = 0 /\ play'.score_today = 0 /\ play'.results = <<>>
          /\ play'.answered_count = 0 /\ play'.progress_visual = 0
          /\ ~play'.completed /\ ~play'.answered
          /\ play'.questions = bank
          /\ save' = save]_vars

\* C21 witness: Replay Today has been pressed after a recorded day; the
\* new session is at its first question and the save holds the day
C21_Witness ==
    /\ call.op = "replay"
    /\ play.idx = 0 /\ play.results = <<>> /\ ~play.completed
    /\ Len(save.history) = 1
    /\ save.total_points = save.history[1].score

\* Whether the save holds a day-summary for the date of session p
HasDaySummary(sv, p) ==
    \E i \in 1..Len(sv.history) : sv.history[i].date = isoformat(p.date)

\* C22: the once-per-day guard survives persistence: when the SaveState
\* was restored, in a fresh application session, from a save document that
\* already holds the day-summary for date D, completing a session for D
\* does not add the score to total_points and appends no second history
\* entry for D.  (Checked under SpecRestore.)
C22_GuardSurvivesRestore ==
    [][(/\ ~play.completed /\ play'.completed
        /\ HasDaySummary(save, play))
       => /\ save'.total_points = save.total_points
          /\ Len(save'.history) = Len(save.history)]_vars

\* C27: submit, hint and next actions that do not bring the session into
\* Completed leave the persisted quiz state unchanged: total_points,
\* streak, last_played, streak_freezes, history, category_stats and badges
\* are modified only by the day-completion recording step.
C27_SaveChangedOnlyByRecording ==
    /\ [][(call'.op \in {"hint", "submit", "rejected", "next"} /\ ~play'.completed)
          => save' = save]_vars
    /\ [][save' # save
          => /\ play'.completed
             /\ recorded_today # isoformat(play'.date)
             /\ recorded_today' = isoformat(play'.date)]_vars

\* C27 witness: in a replayed session, after a recorded day, the first
\* question was answered and Next pressed; the save holds the one day
C27_Witness ==
    /\ call.op = "next"
    /\ ~play.completed /\ play.idx = 1
    /\ Len(save.history) = 1
    /\ save.total_points = save.history[1].score
    /\ save.streak = 1

\* The points of the answers given: 10 for a right answer, 5 for a right
\* answer with a hint
RECURSIVE AnswerPoints(_)
AnswerPoints(results) ==
    IF results = <<>> THEN 0
    ELSE (IF Head(results).correct
          THEN (IF Head(results).used_hint THEN 5 ELSE 10) ELSE 0)
         + AnswerPoints(Tail(results))

\* C28: the perfect-day bonus and the perfect_day badge are unreachable: in
\* every session in which all answers are correct (and, in exact
\* arithmetic, which is the arithmetic here, in every session) progress
\* reaches 1.0 at or before the last question, so the session completes
\* through the progress finish, with finished_by_progress true; Next never
\* leads into Completed; in no reachable state the +20 bonus is part of
\* score_today (of the session or of a recorded day) or badges holds
\* perfect_day.
C28_PerfectDayUnreachable ==
    /\ [](/\ play.completed => play.finished_by_progress
          /\ play.answered_count = Len(play.questions) => play.completed
          /\ play.score_today = AnswerPoints(play.results) + ProgressFinishBonus(play)
          /\ "perfect_day" \notin save.badges
          /\ \A i \in 1..Len(save.history) :
                /\ save.history[i].finished_by_progress
                /\ save.history[i].score <= 10 * save.history[i].correct
                      + PROGRESS_FINISH_PER_Q * save.history[i].total)
    /\ [][call'.op = "next" => ~play'.completed]_vars

\* C28 witness: a day of three questions was answered with three right
\* answers and no hint; the session completed at the third answer by the
\* progress finish, and the day was recorded with 30 points and no badge
C28_Witness ==
    /\ play.completed /\ play.finished_by_progress
    /\ Len(play.questions) = 3
    /\ Len(play.results) = 3
    /\ CorrectCount(play.results) = 3
    /\ play.score_today = 30
    /\ Len(save.history) = 1
    /\ save.history[1].score = 30
    /\ save.badges = {}

(***************************************************************************)
(* Claims about update_streak_with_freeze (checked under SpecStreak).      *)
(***************************************************************************)
\* C4: a call with playing_date equal to last_played changes nothing of the
\* save (streak, streak_freezes, last_played), so repeating it is the same
\* as doing it once.
C4_SameDayIdempotent ==
    (/\ call.op = "update_streak"
     /\ call.before.last_played = isoformat(call.playing_date))
    => save = call.before

\* C4 witness: a same-day call on a save with a running streak
C4_Witness ==
    /\ call.op = "update_streak"
    /\ call.before.last_played = isoformat(call.playing_date)
    /\ call.before.streak >= 1

\* C5: a call more than one day after last_played: with a freeze left it
\* takes exactly one freeze and adds one to streak, with none left it sets
\* streak to 1 and leaves streak_freezes at 0; last_played becomes the
\* playing date.
C5_GapRule ==
    (/\ call.op = "update_streak"
     /\ call.before.last_played # None
     /\ DaysBetween(call.playing_date, fromisoformat(call.before.last_played)) > 1)
    => /\ IF call.before.streak_freezes > 0
          THEN /\ save.streak_freezes = call.before.streak_freezes - 1
               /\ save.streak = call.before.streak + 1
          ELSE /\ save.streak = 1
               /\ save.streak_freezes = 0
       /\ save.last_played = isoformat(call.playing_date)

\* C5 witness: a two-day gap across the month's end, with the last freeze
C5_Witness ==
    /\ call.op = "update_streak"
    /\ call.before.last_played = <<2025, 9, 30>>
    /\ call.playing_date = [y |-> 2025, m |-> 10, d |-> 2]
    /\ call.before.streak_freezes = 1
    /\ save.streak_freezes = 0
    /\ save.streak = call.before.streak + 1

(***************************************************************************)
(* Claims about the finance simulator (checked under SpecMonth).           *)
(***************************************************************************)
\* Inputs of update_credit_score: scores in and out of range, utilizations
\* of every tier (debt over the default limit), both payment flags
ScoreInputs == {0 - 50, 0, 280, 299, 300, 301, 310, 326, 680, 830, 837, 849, 850, 851, 900, 2000}
UtilInputs == {0, 49, 50, 149, 150, 249, 250, 1000}

\* C6: a close_month call appends exactly one snapshot (the earlier entries
\* stay) and adds 1 to month, and the months of the history entries are
\* strictly increasing.
C6_HistoryGrows ==
    /\ call.op = "close_month"
        => /\ Len(state.history) = Len(call.before.history) + 1
           /\ SubSeq(state.history, 1, Len(call.before.history)) = call.before.history
           /\ state.month = call.before.month + 1
    /\ \A i, j \in 1..Len(state.history) :
           i < j => state.history[i].month < state.history[j].month

\* C6 witness: close_month called twice in sequence
C6_Witness ==
    /\ call.op = "close_month"
    /\ Len(call.before.history) = 1
    /\ Len(state.history) = 2

\* C7: update_credit_score gives a value in [300, 850] for every input, and
\* after a close_month the state's creditScore and the creditScore of every
\* snapshot are in [300, 850].
C7_ScoreInRange ==
    /\ \A c \in ScoreInputs, u \in UtilInputs, b \in BOOLEAN :
           update_credit_score(c, u, DefaultCreditLimit, b) \in 300..850
    /\ call.op = "close_month" => state.creditScore \in 300..850
    /\ \A i \in 1..Len(state.history) : state.history[i].creditScore \in 300..850

\* C7 witness: close_month on a loaded score above the range
C7_Witness ==
    /\ call.op = "close_month"
    /\ call.before.creditScore > 850
    /\ state.creditScore = 850
    /\ state.history[Len(state.history)].creditScore = 850

\* C10: close_month's debt model: interest first, rounded up; the minimum
\* payment is min(25, debt after interest); pay_full pays all of it, any
\* other choice pays the minimum; so a debt below 25 is cleared by one
\* minimum payment.
C10_DebtModel ==
    call.op = "close_month"
    => LET debt_after_interest == CeilDiv(call.before.debt * 102, 100)
           min_payment == Min(25, debt_after_interest)
           payment == IF call.before.choices["credit_card"] = "pay_full"
                      THEN debt_after_interest ELSE min_payment
       IN  /\ call.cc.debt_after_interest = debt_after_interest
           /\ call.cc.min_payment = min_payment
           /\ call.cc.payment = payment
           /\ state.debt = Max(0, debt_after_interest - payment)
           /\ (call.before.debt < 25 => state.debt = 0)

(***************************************************************************)
(* Claims about apply_budget (checked under SpecBudget).                   *)
(***************************************************************************)
BudgetRemaining == Max(0, call.net_income * 100 - call.fixed_needs_costs * 100)
BudgetPlannedWants == call.net_income * call.wants_p
BudgetPlannedSavings == call.net_income * call.savings_p

\* C8: with fractions summing to at most 1 and fixed needs no more than
\* the net income, the four outputs are non-negative and sum to the net
\* income up to rounding (half a cent for each output).
C8_BudgetSumsToNet ==
    (/\ call.op = "apply_budget"
     /\ call.needs_p + call.wants_p + call.savings_p <= 100
     /\ call.fixed_needs_costs <= call.net_income)
    => /\ call.out.needs_spend >= 0 /\ call.out.wants_spend >= 0
       /\ call.out.savings_add >= 0 /\ call.out.leftover >= 0
       /\ Abs(call.out.needs_spend + call.out.wants_spend + call.out.savings_add
              + call.out.leftover - call.net_income) <= 2

\* C9 as stated: wants are funded before savings, wantsSpend =
\* min(plannedWants, remaining), savingsAdded = min(plannedSavings,
\* remaining - wantsSpend).
C9_WantsBeforeSavings ==
    call.op = "apply_budget"
    => LET wants == Min(BudgetPlannedWants, BudgetRemaining)
           savings == Min(BudgetPlannedSavings, BudgetRemaining - wants)
       IN  /\ call.out.wants_spend = RoundHalfEven(wants, 100)
           /\ call.out.savings_add = RoundHalfEven(savings, 100)

\* C9 as amended: savings are funded before wants, savingsAdded =
\* min(plannedSavings, remaining), wantsSpend = min(plannedWants,
\* remaining - savingsAdded); when the pool is short the shortfall falls on
\* wants, and savings are short only when wants get nothing.
C9_SavingsBeforeWants ==
    (/\ call.op = "apply_budget"
     /\ call.needs_p + call.wants_p + call.savings_p <= 100)
    => LET savings == Min(BudgetPlannedSavings, BudgetRemaining)
           wants == Min(BudgetPlannedWants, BudgetRemaining - savings)
       IN  /\ call.out.savings_add = RoundHalfEven(savings, 100)
           /\ call.out.wants_spend = RoundHalfEven(wants, 100)
           /\ (savings < BudgetPlannedSavings => call.out.wants_spend = 0)

\* C9 witness: the pool covers the planned savings and part of the wants
C9_Witness ==
    /\ call.op = "apply_budget"
    /\ call.needs_p + call.wants_p + call.savings_p <= 100
    /\ BudgetRemaining < BudgetPlannedWants + BudgetPlannedSavings
    /\ call.out.savings_add * 100 = BudgetPlannedSavings
    /\ call.out.wants_spend > 0
    /\ call.out.wants_spend * 100 < BudgetPlannedWants

(***************************************************************************)
(* Claims about the save files (checked under SpecSave and SpecLoad).      *)
(***************************************************************************)
\* C13: save round trip.  The document export_save writes for a PlayerState
\* (empty history and empty choices included) is imported as that same
\* state, field for field, and the document to_json writes for a SaveState
\* (empty history, category_stats and badges included) is read by
\* from_json as that same save.
C13_SaveRoundTrip ==
    /\ call.op = "download" => import_save(call.doc) = Returned(call.before)
    /\ call.op = "download_quiz" => from_json(call.doc) = Returned(save)

\* C13 witness: the save of a game with a closed month and stored choices
\* has been downloaded, next to a quiz save that holds a day-summary,
\* category counters and a badge
C13_Witness ==
    /\ call.op = "download"
    /\ Len(call.before.history) > 0
    /\ DOMAIN call.before.choices # {}
    /\ Len(save.history) > 0 /\ DOMAIN save.category_stats # {} /\ save.badges # {}

\* The defaults the specification documents for missing fields
DocumentedDefaults ==
    [month |-> 1, cash |-> 200, savings |-> 100, debt |-> 0, creditScore |-> 680,
     budget_needs |-> 50, budget_wants |-> 30, budget_savings |-> 20]
DocumentedIncome == [hoursPerWeek |-> 80, wagePerHour |-> 1500, withholdingRate |-> 12]

\* C14: after loading a save document with fields missing, every missing
\* field holds its documented default: month 1, cash 200, savings 100,
\* debt 0, creditScore 680, hoursPerWeek 20, wagePerHour 15,
\* withholdingRate 0.12, budget 0.5 / 0.3 / 0.2.
C14_MissingFieldDefaults ==
    (call.op = "load_file" /\ call.doc \in PartialFiles)
    => LET s == Get(call.doc.v, "state", JObj(<<>>)).v
           inc == Get(s, "income", JObj(<<>>)).v
       IN  /\ \A f \in DOMAIN DocumentedDefaults :
                f \notin DOMAIN s => state[f] = DocumentedDefaults[f]
           /\ \A f \in DOMAIN DocumentedIncome :
                f \notin DOMAIN inc => state.income[f] = DocumentedIncome[f]

\* A number, or a text that reads as a number
Numeric(x) == x.t = "num" \/ (x.t = "str" /\ FloatParses(strip(x.v)))

\* A document that is a JSON object and whose fields, where present, hold
\* values that stand for the fields of PlayerState: numbers, an object of
\* numbers, an object of texts, a list of snapshots of six numbers
WellFormed(doc) ==
    /\ doc.t = "obj"
    /\ "state" \in DOMAIN doc.v =>
         LET s == doc.v["state"]
         IN  /\ s.t = "obj"
             /\ \A f \in DOMAIN DocumentedDefaults :
                   f \in DOMAIN s.v => Numeric(s.v[f])
             /\ "income" \in DOMAIN s.v =>
                   /\ s.v["income"].t = "obj"
                   /\ \A k \in DOMAIN s.v["income"].v : Numeric(s.v["income"].v[k])
             /\ "choices" \in DOMAIN s.v =>
                   /\ s.v["choices"].t = "obj"
                   /\ \A k \in DOMAIN s.v["choices"].v : s.v["choices"].v[k].t = "str"
             /\ "history" \in DOMAIN s.v =>
                   /\ s.v["history"].t = "arr"
                   /\ \A i \in 1..Len(s.v["history"].v) :
                         LET h == s.v["history"].v[i]
                         IN  /\ h.t = "obj"
                             /\ DOMAIN h.v = SnapshotFields
                             /\ \A k \in SnapshotFields : Numeric(h.v[k])

\* C15: loading a malformed save document is rejected and the state in
\* memory stays: import_save returns no state and the PlayerState is not
\* replaced; when from_json fails the quiz SaveState is not replaced.
C15_MalformedLoadRejected ==
    /\ (call.op = "load_file" /\ ~WellFormed(call.doc))
       => (~import_save(call.doc).ok /\ state = call.before)
    /\ (call.op = "load_quiz" /\ ~from_json(call.doc).ok)
       => save = call.before

\* C23: after any setting of the Needs and Wants sliders (each 0..100) the
\* stored budget fractions budget_needs, budget_wants and budget_savings
\* are each >= 0 and sum to at most 1 (100 percent).
C23_BudgetFractionsValid ==
    [][call'.op = "budget"
       => /\ state'.budget_needs >= 0
          /\ state'.budget_wants >= 0
          /\ state'.budget_savings >= 0
          /\ state'.budget_needs + state'.budget_wants + state'.budget_savings
                <= 100]_vars

\* C24: the snapshot appended by close_month records the balances after
\* the update: its cash, savings, debt and creditScore equal the state's
\* fields after the call, its month equals the state's month before the
\* call, and its netWorth equals cash + savings - debt of that snapshot.
C24_SnapshotRecordsNewBalances ==
    [][call'.op = "close_month"
       => /\ Len(state'.history) = Len(state.history) + 1
          /\ LET snap == state'.history[Len(state'.history)]
             IN  /\ snap.cash = state'.cash
                 /\ snap.savings = state'.savings
                 /\ snap.debt = state'.debt
                 /\ snap.creditScore = state'.creditScore
                 /\ snap.month = state.month
                 /\ snap.netWorth = snap.cash + snap.savings - snap.debt]_vars

\* C24 witness: a month was closed on a state with debt under the minimum
\* payment choice; cash, debt and score all changed and the snapshot is
\* the second of the history
C24_Witness ==
    /\ call.op = "close_month"
    /\ Len(state.history) = 2
    /\ call.before.debt > 0 /\ state.debt > 0
    /\ state.cash # call.before.cash
    /\ state.creditScore # call.before.creditScore
    /\ state.history[2].debt = state.debt

\* C25: from a state with debt >= 0 and savings >= 0, after any sequence of
\* close_month calls (any choices, any non-negative income and budget)
\* debt >= 0 and savings >= 0 hold, and savings never decreases.
C25_DebtAndSavingsNonNegative ==
    /\ [](state.debt >= 0 /\ state.savings >= 0)
    /\ [][call'.op = "close_month" => state'.savings >= state.savings]_vars

\* C25 witness: two months were closed in a row, the first with income
\* (savings grew), the second without income (savings stayed), with debt
C25_Witness ==
    /\ call.op = "close_month"
    /\ Len(state.history) = 2
    /\ state.history[1].savings > NewPlayerState.savings
    /\ state.savings = state.history[1].savings
    /\ call.before.income.hoursPerWeek = 0
    /\ state.debt > 0

(***************************************************************************)
(* Claims about update_credit_score (checked under SpecScore).             *)
(***************************************************************************)
\* The documented tier of the utilization num / den: +6 below 0.10, +2
\* below 0.30, -6 below 0.50, else -12
DocumentedTier(num, den) ==
    IF num * 10 < den THEN 6
    ELSE IF num * 10 < den * 3 THEN 2
    ELSE IF num * 2 < den THEN 0 - 6 ELSE 0 - 12

DocumentedScore(current, num, den, paidOnTime) ==
    LET raw == current + (IF paidOnTime THEN 8 ELSE 0 - 25) + DocumentedTier(num, den)
    IN  IF raw < 300 THEN 300 ELSE IF raw > 850 THEN 850 ELSE raw

\* C26: update_credit_score(current, utilization, paidOnTime) equals
\* clamp(current + (8 if paidOnTime else -25) + tier, 300, 850) with tier
\* +6 if utilization < 0.10, +2 if < 0.30, -6 if < 0.50, else -12;
\* close_month calls it with utilization = newDebt / creditLimit, or 0 when
\* creditLimit is 0.
C26_CreditScoreUpdate ==
    /\ call.op = "update_credit_score"
       => call.out = DocumentedScore(call.current, call.util_num, call.util_den,
                                     call.on_time)
    /\ call.op = "close_month_limit"
       => state.creditScore =
            IF call.credit_limit = 0
            THEN DocumentedScore(call.before.creditScore, 0, 1,
                                 call.cc.payment >= call.cc.min_payment)
            ELSE DocumentedScore(call.before.creditScore, state.debt,
                                 call.credit_limit,
                                 call.cc.payment >= call.cc.min_payment)

\* C26 witness: a late payment at a utilization of exactly 0.30 (150 of
\* 500), which is in the -6 tier: 680 - 25 - 6
C26_Witness ==
    /\ call.op = "update_credit_score"
    /\ call.current = 680 /\ ~call.on_time
    /\ call.util_num = 150 /\ call.util_den = 500
    /\ call.out = 649

\* C29: under the minimum-payment choice a positive debt is never paid
\* off: for every debt >= 1, close_month with choices['credit_card'] other
\* than 'pay_full' yields a new debt >= 1 (and a new debt >= the old debt
\* whenever the old debt >= 1250), so over any number of minimum-payment
\* months debt never reaches 0, whereas one month with 'pay_full' always
\* yields debt 0.
C29_MinimumPaymentNeverPaysOff ==
    call.op = "close_month_limit"
    => LET pay_full == call.before.choices["credit_card"] = "pay_full"
       IN  /\ (~pay_full /\ call.before.debt >= 1) => state.debt >= 1
           /\ (~pay_full /\ call.before.debt >= 1250) => state.debt >= call.before.debt
           /\ pay_full => state.debt = 0

\* C29 witness: the second minimum-payment month on a debt of 1 has been
\* closed (interest rounds the debt up to 2, the payment is 1): the debt
\* is 1 as before
C29_Witness ==
    /\ call.op = "close_month_limit"
    /\ Len(state.history) = 2
    /\ call.before.choices["credit_card"] = "min_pay"
    /\ state.history[1].debt = 1
    /\ call.cc.debt_after_interest = 2 /\ call.cc.payment = 1
    /\ state.debt = 1

\* C30: in close_month the payment is never late: payment >= min_payment
\* holds for every state and choice, so update_credit_score is always
\* called with on-time = true, the -25 penalty is never applied by
\* close_month, and the credit score change of a month is one of +14, +10,
\* +2, -4 before clamping.  (Checked under SpecCredit.)
C30_PaymentNeverLate ==
    call.op = "close_month"
    => /\ call.cc.payment >= call.cc.min_payment
       /\ \E change \in {14, 10, 2, 0 - 4} :
             state.creditScore
               = Max(300, Min(850, call.before.creditScore + change))

\* C31: from a new game (debt 0, creditScore 680) no sequence of choice
\* changes and close_month calls ever creates debt: the debt is 0 in every
\* reachable state and in every snapshot, the utilization (new debt over
\* the credit limit) of every month is 0, the credit score never decreases,
\* and under repeated close_month it reaches 850 and stays there.
\* (Checked under SpecGameFair.)
C31_NewGameNeverInDebt ==
    /\ [](/\ state.debt = 0
          /\ \A i \in 1..Len(state.history) : state.history[i].debt = 0
          /\ call.op = "close_month"
                => /\ call.cc.new_debt = 0
                   /\ call.cc.payment >= call.cc.min_payment)
    /\ [][state'.creditScore >= state.creditScore]_vars
    /\ <>[](state.creditScore = 850)

\* C31 witness: the fourteenth month of a game has been closed under the
\* minimum-payment choice: the score was 680 at the start, 848 after twelve
\* months, 850 after thirteen, and is 850 still
C31_Witness ==
    /\ call.op = "close_month"
    /\ Len(state.history) = 14
    /\ call.before.choices["credit_card"] = "min_pay"
    /\ state.history[1].creditScore = 694
    /\ state.history[12].creditScore = 848
    /\ state.history[13].creditScore = 850
    /\ state.creditScore = 850
    /\ state.debt = 0

(***************************************************************************)
(* Claims about compute_net_pay (checked under SpecPay).                   *)
(***************************************************************************)
\* C16: compute_net_pay returns gross, withheld and net rounded to 2
\* decimals such that the returned net is the returned gross minus the
\* returned withheld, for all hours and wages >= 0 and rates in [0, 1];
\* (20, 15, 0.12) gives (1200.00, 144.00, 1056.00).
C16_NetIsGrossMinusWithheld ==
    call.op = "compute_net_pay"
    => /\ call.out.net = call.out.gross - call.out.withheld
       /\ (call.hours_per_week = 80 /\ call.wage = 1500 /\ call.withholding_rate = 12)
            => call.out = [gross |-> 120000, withheld |-> 14400, net |-> 105600]

(***************************************************************************)
(* Claims about clean_text (checked under SpecClean).                      *)
(***************************************************************************)
\* C17: clean_text is idempotent: cleaning a cleaned text changes nothing,
\* also when removing a zero-width character or normalizing the spacing
\* around commas and periods exposes a sequence that unicode normalization
\* or the whitespace collapse would have rewritten.
C17_CleanTextIdempotent ==
    call.op = "clean_text" => clean_text(call.out) = call.out

====
